---- MODULE Spec2Model ----
(***************************************************************************)
(* The dispatch engine of src/src/core.mjs: TxStep, runEvent, abandon,     *)
(* TxSubscription and the consumer-side step of endWithHandler, run on one *)
(* materialized chain  Root -> ... -> Base.  The program is single         *)
(* threaded and re-entrant, so the model keeps the JavaScript call stack:  *)
(* engine activations (runEvent, abandon) and the user callbacks they call *)
(* (controllers, subscriber callbacks, onClose callbacks).  User code is   *)
(* the environment: while it runs it may call next/complete/error,         *)
(* abandon or unsubscribe, and it ends by returning or by throwing.        *)
(***************************************************************************)
EXTENDS Integers, Sequences, FiniteSets, TLC

\* Bounds of the model
NumSteps == 3      \* steps of the chain: Root = 1 (source), Base = NumSteps
MaxCalls == 2      \* calls user code makes into the engine
MaxThrows == 1     \* exceptions user callbacks throw
MaxEmits == 3      \* calls of an environment that only emits
MaxEvents == 2     \* next/complete/error calls on a SyncSubject
MaxListeners == 3  \* subscribe calls on a SyncSubject
MaxItems == 2      \* elements of an array given to from(), of() or concat()

Steps == 1..NumSteps
Root == 1
Base == NumSteps
Null == 0

VARIABLES
  state,        \* TxStep._state
  parent,       \* TxStep._parent
  child,        \* TxStep._child
  controller,   \* TxStep.controller is set
  onClose,      \* TxStep.onClose is set
  queueEnd,     \* TxStep._queueEnd (a queue node, or Null)
  nextIndex,    \* TxStep._nextIndex
  nodes,        \* the queue nodes allocated so far (the heap)
  unsubscribed, \* TxSubscription.unsubscribe has been replaced by noop
  hasOnError,   \* the subscriber passed an error callback
  stack,        \* the call stack, top last
  delivered,    \* history: controller invocations, in order
  torn,         \* history: onClose invocations, in order
  passes,       \* history: the teardown passes abandon has started
  sink,         \* history: errors given to uncaughtErrorWhileRunning
  subLog,       \* history: subscriber callback invocations
  thrownLog,    \* history: exceptions thrown by user callbacks
  routed,       \* history: exceptions routed by runEvent's catch block
  raised,       \* history: an exception left the engine into its caller
  unsubReturned,\* history: some unsubscribe() call has returned
  lastCall,     \* history: the last call user code made
  calls,        \* number of calls user code has made
  throws,       \* number of exceptions thrown
  children,     \* SyncSubject._children: the first listener record, or Null
  recs,         \* the listener records allocated so far (the heap)
  heard,        \* history: listener invocations, in order
  joins,        \* history: per listener record, how it joined and left
  code,         \* per step: which closure TxStep.controller holds
  closer,       \* per step: which closure TxStep.onClose holds
  cells,        \* the variables the operators' closures share (a heap)
  obs,          \* the TxObservable objects constructed so far (a heap)
  timers,       \* the setTimeout registrations made so far
  promises,     \* the promises given as items: "pending", "resolved", "rejected"
  sub,          \* the TxSubscription the top-level subscribe returned
  plan,         \* the pipeline definitions the program constructs
  opened,       \* history: calls of open functions, in order
  userCalls     \* history: calls of the functions given to operators

engineVars == <<state, parent, child, queueEnd, nextIndex, nodes, unsubscribed>>
configVars == <<controller, onClose, hasOnError>>
historyVars == <<delivered, torn, passes, sink, subLog, thrownLog, routed,
                 raised, unsubReturned, lastCall, calls, throws>>
subjectVars == <<children, recs, heard, joins>>
\* the state of what is built on the engine
pipeVars == <<code, closer, cells, obs, timers, promises, sub, plan, opened,
              userCalls>>
otherVars == <<subjectVars, pipeVars>>
vars == <<state, parent, child, controller, onClose, queueEnd, nextIndex,
          nodes, unsubscribed, hasOnError, stack, delivered, torn, passes,
          sink, subLog, thrownLog, routed, raised, unsubReturned, lastCall,
          calls, throws, otherVars>>

----------------------------------------------------------------------------
\* Iterations: {done:false,value}, {done:true,value:undefined},
\* {done:true,value:{error}}

NextIter == [kind |-> "next", value |-> 0]
CompleteIter == [kind |-> "complete", value |-> 0]
ErrorIter(e) == [kind |-> "error", value |-> e]
IsDone(it) == it.kind # "next"
IsError(it) == it.kind = "error"

\* what user code passes to next(), complete(), error()
UserIterations == {NextIter, CompleteIter, ErrorIter(0)}

----------------------------------------------------------------------------
\* Closures: what a controller or an onClose slot holds is named by the
\* function that made it (op) and the variables it closed over

Closure(op) ==
  [op |-> op, env |-> Null, flag |-> Null, out |-> Null, self |-> Null,
   def |-> Null, callbacks |-> FALSE]

\* code the model leaves to the environment
UserCode == Closure("user")

\* endStep.controller of endWithHandler (lines 542-553); callbacks tells
\* whether subscribe was given a handler
EndCode(callbacks) == [Closure("end") EXCEPT !.callbacks = callbacks]

\* no pipeline has been defined
NoPipes ==
  /\ cells = <<>>
  /\ obs = <<>>
  /\ timers = <<>>
  /\ promises = <<>>
  /\ sub = Null
  /\ plan = <<>>
  /\ opened = <<>>
  /\ userCalls = <<>>

----------------------------------------------------------------------------
\* Stack frames

Frame(kind, pc, step) ==
  [kind |-> kind, pc |-> pc, step |-> step, child |-> Null, active |-> Null,
   nextEvent |-> Null, err |-> Null, closers |-> <<>>, i |-> 0, pass |-> 0,
   prevChild |-> Null, nextChild |-> Null, env |-> Null, flag |-> Null,
   openers |-> <<>>]

\* a user callback: role is "controller", "subscriber" or "onClose"
UserFrame(role, s) == Frame("user", role, s)

\* runEvent's drain loop for step s, with its locals child and active
RunFrame(s, c, node) ==
  [Frame("runEvent", "loop", s) EXCEPT !.child = c, !.active = node]

\* abandon's loop over the collected closers
AbandonFrame(s, closers, p) ==
  [Frame("abandon", "closers", s) EXCEPT
     !.closers = closers, !.i = Len(closers), !.pass = p]

Top == stack[Len(stack)]
Below == SubSeq(stack, 1, Len(stack) - 1)
SetTop(f) == [stack EXCEPT ![Len(stack)] = f]

\* user code is running: the top level, or a callback
InUserCode == IF stack = <<>> THEN TRUE ELSE Top.kind = "user"
OnTop(kind, pcs) == stack # <<>> /\ Top.kind = kind /\ Top.pc \in pcs

----------------------------------------------------------------------------
\* The chain TxObservable.subscribe builds (lines 444-462): new TxStep(child)
\* links each step to the one built before it; every step but the source's
\* gets a controller (the operators', and endWithHandler's for Base); user
\* code may set onClose on the steps it is handed, which Base is not.

\* no SyncSubject is in use
NoSubject == children = Null /\ recs = <<>> /\ heard = <<>> /\ joins = <<>>

Init ==
  /\ state = [s \in Steps |-> "Open"]
  /\ parent = [s \in Steps |-> s - 1]
  /\ child = [s \in Steps |-> IF s = Base THEN Null ELSE s + 1]
  /\ controller = [s \in Steps |-> s # Root]
  /\ onClose \in {[s \in Steps |-> s # Base], [s \in Steps |-> FALSE]}
  /\ hasOnError \in BOOLEAN
  /\ queueEnd = [s \in Steps |-> Null]
  /\ nextIndex = [s \in Steps |-> 0]
  /\ nodes = <<>>
  /\ unsubscribed = FALSE
  /\ stack = <<>>
  /\ delivered = <<>>
  /\ torn = <<>>
  /\ passes = <<>>
  /\ sink = <<>>
  /\ subLog = <<>>
  /\ thrownLog = <<>>
  /\ routed = <<>>
  /\ raised = FALSE
  /\ unsubReturned = FALSE
  /\ lastCall = [op |-> "none", step |-> Null]
  /\ calls = 0
  /\ throws = 0
  /\ NoSubject
  /\ code = [s \in Steps |-> IF s = Base THEN EndCode(TRUE) ELSE UserCode]
  /\ closer = [s \in Steps |-> UserCode]
  /\ NoPipes

----------------------------------------------------------------------------
\* TxStep.abandon, lines 164-192

\* faulty variant: abandon without its early return
NeverAbandoned(s) == FALSE

\* the early return of line 165
AlreadyAbandoned(s) == state[s] = "Closed"

\* faulty variant: abandon closes the step it is called on and goes no
\* further
WalkStopsAtOnce(tx) == IF tx = Null THEN <<>> ELSE <<tx>>

\* the steps the while loop of lines 171-182 visits, in visiting order
RECURSIVE Walk(_)
Walk(tx) == IF tx = Null THEN <<>> ELSE <<tx>> \o Walk(parent[tx])

\* the closers array of lines 169-175, in push order
Closers(s) == SelectSeq(Walk(s), LAMBDA t : onClose[t])

\* faulty variant: the closers run in push order
NextCloserInPushOrder(closers, i) == closers[Len(closers) - i + 1]

\* closers[--i] of line 187, i being the value before the decrement
NextCloser(closers, i) == closers[i]

\* faulty variant: a throwing closer ends the loop
StopAfterCloserThrew(i) == 0

\* the catch of lines 188-190 sits inside the loop: the loop goes on from i
AfterCloserThrew(i) == i

\* faulty variant: the loop also closes the child of the step it starts at
VisitedWithChild(s) == {Walk(s)[k] : k \in DOMAIN Walk(s)} \cup ({child[s]} \ {Null})

\* the steps the loop of lines 171-182 assigns to: those of the walk
Visited(s) == {Walk(s)[k] : k \in DOMAIN Walk(s)}

\* abandon() up to its first closer; the caller's stack is stk
abandon(s, stk, via) ==
  IF AlreadyAbandoned(s) THEN
    /\ stack' = stk
    /\ UNCHANGED <<state, parent, child, queueEnd, passes>>
  ELSE
    LET visited == Visited(s) IN
    /\ queueEnd' = [t \in DOMAIN state |-> IF t \in visited THEN Null ELSE queueEnd[t]]
    /\ state' = [t \in DOMAIN state |-> IF t \in visited THEN "Closed" ELSE state[t]]
    /\ child' = [t \in DOMAIN state |-> IF t \in visited THEN Null ELSE child[t]]
    /\ parent' = [t \in DOMAIN state |-> IF t \in visited THEN Null ELSE parent[t]]
    /\ passes' = Append(passes, [root |-> s, closers |-> Closers(s), via |-> via])
    /\ stack' = Append(stk, AbandonFrame(s, Closers(s), Len(passes) + 1))

\* the loop of lines 184-191: call the next closer, or return
RunClosers ==
  /\ OnTop("abandon", {"closers", "closer"})
  /\ LET f == Top IN
     IF f.i = 0 THEN
       /\ stack' = Below
       /\ unsubReturned' = (unsubReturned \/ passes[f.pass].via = "unsubscribe")
       /\ torn' = torn
     ELSE
       LET s == NextCloser(f.closers, f.i) IN
       /\ stack' = Append(SetTop([f EXCEPT !.i = f.i - 1, !.pc = "closer"]),
                          UserFrame("onClose", s))
       /\ torn' = Append(torn, [pass |-> f.pass, step |-> s])
       /\ unsubReturned' = unsubReturned
  /\ UNCHANGED <<engineVars, configVars, otherVars, delivered, passes, sink, subLog,
                 thrownLog, routed, raised, lastCall, calls, throws>>

----------------------------------------------------------------------------
\* runEvent, lines 209-273

\* faulty variant: runEvent without its state guard
AlwaysEmit(s) == TRUE

\* the guard of line 210
CanEmit(s) == state[s] = "Open"

\* faulty variant: runEvent never sees a running drain loop
NeverDraining(s) == FALSE

\* "if (pending)" of line 234: a drain loop of s is already running
IsDraining(s) == queueEnd[s] # Null

\* runEvent(step, iteration) up to the start of its drain loop (lines 209-242)
runEvent(s, it, stk, call) ==
  IF ~CanEmit(s) THEN
    /\ stack' = stk
    /\ UNCHANGED <<state, queueEnd, nextIndex, nodes>>
  ELSE
    /\ state' = IF IsDone(it) THEN [state EXCEPT ![s] = "Closing"] ELSE state
    /\ IF child[s] = Null THEN
         /\ stack' = stk
         /\ UNCHANGED <<queueEnd, nextIndex, nodes>>
       ELSE
         LET id == Len(nodes) + 1
             queueNode == [step |-> s, iteration |-> it, index |-> nextIndex[s],
                           nextEvent |-> Null, call |-> call]
             pending == queueEnd[s]
         IN
         /\ nextIndex' = [nextIndex EXCEPT ![s] = @ + 1]
         /\ queueEnd' = [queueEnd EXCEPT ![s] = id]
         /\ IF IsDraining(s) THEN
              /\ nodes' = Append([nodes EXCEPT ![pending].nextEvent = id], queueNode)
              /\ stack' = stk
            ELSE
              /\ nodes' = Append(nodes, queueNode)
              /\ stack' = Append(stk, RunFrame(s, child[s], id))

\* the head of the while loop (lines 243-248), entered from line 242 or after
\* the handler returned (line 257); and line 272 when the loop ends
DrainLoop ==
  /\ OnTop("runEvent", {"loop", "handler"})
  /\ LET f == Top
         active == IF f.pc = "handler" THEN f.nextEvent ELSE f.active
     IN
     IF active = Null THEN
       /\ queueEnd' = [queueEnd EXCEPT ![f.step] = Null]
       /\ stack' = Below
       /\ UNCHANGED <<state, parent, child, passes>>
     ELSE
       LET g == [f EXCEPT !.pc = "invoke", !.active = active,
                          !.nextEvent = nodes[active].nextEvent]
       IN
       IF IsDone(nodes[active].iteration) THEN
         abandon(f.step, SetTop(g), "terminal")
       ELSE
         /\ stack' = SetTop(g)
         /\ UNCHANGED <<state, parent, child, queueEnd, passes>>
  /\ UNCHANGED <<nextIndex, nodes, unsubscribed, configVars, otherVars, delivered, torn,
                 sink, subLog, thrownLog, routed, raised, unsubReturned,
                 lastCall, calls, throws>>

\* the controller of c is endStep.controller of endWithHandler
IsEndStep(c) == code[c].op = "end"

\* endStep.controller of endWithHandler (lines 543-553) calls a callback of the
\* subscriber, except for an error without an error callback, and except
\* when subscribe was given no handler (runTx, line 499)
EndStepCallsUser(c, it) == code[c].callbacks /\ (~IsError(it) \/ hasOnError)

\* lines 251-256: read child.controller and call it
InvokeHandler ==
  /\ OnTop("runEvent", {"invoke"})
  /\ LET f == Top
         c == f.child
         it == nodes[f.active].iteration
     IN
     IF ~controller[c] THEN
       /\ stack' = SetTop([f EXCEPT !.pc = "loop", !.active = Null])
       /\ UNCHANGED <<delivered, subLog, sink>>
     ELSE
       /\ delivered' = Append(delivered, [from |-> f.step, to |-> c, node |-> f.active,
                                          index |-> nodes[f.active].index])
       /\ IF ~IsEndStep(c) THEN
            /\ stack' = Append(SetTop([f EXCEPT !.pc = "handler"]),
                               UserFrame("controller", c))
            /\ UNCHANGED <<subLog, sink>>
          ELSE IF EndStepCallsUser(c, it) THEN
            /\ stack' = Append(SetTop([f EXCEPT !.pc = "handler"]),
                               UserFrame("subscriber", c))
            /\ subLog' = Append(subLog, [cb |-> it.kind, value |-> it.value,
                                         late |-> unsubReturned])
            /\ sink' = sink
          ELSE
            /\ stack' = SetTop([f EXCEPT !.pc = "handler"])
            /\ sink' = IF IsError(it) THEN Append(sink, it.value) ELSE sink
            /\ subLog' = subLog
  /\ UNCHANGED <<engineVars, configVars, otherVars, torn, passes, thrownLog, routed,
                 raised, unsubReturned, lastCall, calls, throws>>

\* the catch block, line 260: step.abandon()
CatchAbandon ==
  /\ OnTop("runEvent", {"catch"})
  /\ abandon(Top.step, SetTop([Top EXCEPT !.pc = "route"]), "catch")
  /\ UNCHANGED <<nextIndex, nodes, unsubscribed, configVars, otherVars, delivered, torn,
                 sink, subLog, thrownLog, routed, raised, unsubReturned,
                 lastCall, calls, throws>>

\* faulty variant: the catch block always redirects to the child
ChildAlwaysReceives(c) == TRUE

\* the test of line 262
ChildCanReceive(c) == state[c] = "Open"

\* the catch block, lines 262-267: child.error(error), or the uncaught sink
RouteError ==
  /\ OnTop("runEvent", {"route"})
  /\ LET f == Top
         stk == SetTop([f EXCEPT !.pc = "loop", !.active = Null])
     IN
     /\ routed' = Append(routed, [err |-> f.err, step |-> f.step, child |-> f.child,
                                  childOpen |-> state[f.child] = "Open",
                                  grandchild |-> child[f.child],
                                  node |-> Len(nodes) + 1])
     /\ IF ChildCanReceive(f.child) THEN
          /\ runEvent(f.child, ErrorIter(f.err), stk, 0)
          /\ sink' = sink
        ELSE
          /\ sink' = Append(sink, f.err)
          /\ stack' = stk
          /\ UNCHANGED <<state, queueEnd, nextIndex, nodes>>
  /\ UNCHANGED <<parent, child, unsubscribed, configVars, otherVars, delivered, torn,
                 passes, subLog, thrownLog, raised, unsubReturned, lastCall,
                 calls, throws>>

----------------------------------------------------------------------------
\* User code

\* faulty variant: abandon calls its closers outside any try block
CatchesHandlerOnly(f) == f.kind = "runEvent" /\ f.pc = "handler"

\* a frame whose pending call sits inside a try block: the handler call of
\* lines 255-256 and the closer call of lines 186-187
Catches(f) ==
  \/ f.kind = "runEvent" /\ f.pc = "handler"
  \/ f.kind = "abandon" /\ f.pc = "closer"

\* an exception leaves the frames that do not catch it
RECURSIVE Unwind(_)
Unwind(stk) ==
  IF stk = <<>> THEN stk
  ELSE IF stk[Len(stk)].kind = "user" \/ Catches(stk[Len(stk)]) THEN stk
  ELSE Unwind(SubSeq(stk, 1, Len(stk) - 1))

\* a callback returns
UserReturn ==
  /\ stack # <<>> /\ Top.kind = "user"
  /\ stack' = Below
  /\ UNCHANGED <<engineVars, configVars, otherVars, historyVars>>

\* the callback on top of the stack throws
Throw ==
  /\ stack # <<>> /\ Top.kind = "user"
  /\ LET e == throws + 1
         caller == stack[Len(stack) - 1]
         stk == Unwind(Below)
         landed == IF stk = <<>> THEN Frame("none", "none", Null) ELSE stk[Len(stk)]
     IN
     /\ throws' = e
     /\ thrownLog' = Append(thrownLog,
          [err |-> e, role |-> Top.pc, step |-> Top.step, from |-> caller.step,
           pass |-> caller.pass,
           n |-> Len(SelectSeq(delivered, LAMBDA d : d.from = caller.step))])
     /\ IF landed.kind = "runEvent" THEN
          /\ stack' = [stk EXCEPT ![Len(stk)] =
                         [landed EXCEPT !.pc = "catch", !.err = e, !.active = Null]]
          /\ UNCHANGED <<sink, raised>>
        ELSE IF landed.kind = "abandon" THEN
          /\ stack' = [stk EXCEPT ![Len(stk)].i = AfterCloserThrew(landed.i)]
          /\ sink' = Append(sink, e)
          /\ raised' = raised
        ELSE
          /\ stack' = stk
          /\ raised' = TRUE
          /\ sink' = sink
  /\ UNCHANGED <<engineVars, configVars, otherVars, delivered, torn, passes, subLog,
                 routed, unsubReturned, lastCall, calls>>

\* a callback throws
UserThrow == throws < MaxThrows /\ Throw

\* user code calls step.next(v), step.complete(), step.error(e) or step.iter(it)
\* (lines 128-154) on a step it was handed
UserEmit(s, it) ==
  /\ InUserCode
  /\ calls' = calls + 1
  /\ lastCall' = [op |-> "emit", step |-> s]
  /\ runEvent(s, it, stack, calls + 1)
  /\ UNCHANGED <<parent, child, unsubscribed, configVars, otherVars, delivered, torn,
                 passes, sink, subLog, thrownLog, routed, raised,
                 unsubReturned, throws>>

CallEmit(s, it) == calls < MaxCalls /\ UserEmit(s, it)

\* the same call, made by user code that does nothing but emit
EmitOnly(s, it) == calls < MaxEmits /\ UserEmit(s, it)

\* user code calls step.abandon()
CallAbandon(s) ==
  /\ InUserCode
  /\ calls < MaxCalls
  /\ calls' = calls + 1
  /\ lastCall' = [op |-> "abandon", step |-> s]
  /\ abandon(s, stack, "abandon")
  /\ UNCHANGED <<nextIndex, nodes, unsubscribed, configVars, otherVars, delivered, torn,
                 sink, subLog, thrownLog, routed, raised, unsubReturned,
                 throws>>

\* user code calls subscription.unsubscribe(), lines 416-419
CallUnsubscribe ==
  /\ InUserCode
  /\ calls < MaxCalls
  /\ calls' = calls + 1
  /\ lastCall' = [op |-> "unsubscribe", step |-> Base]
  /\ unsubscribed' = TRUE
  /\ IF unsubscribed THEN
       /\ unsubReturned' = TRUE
       /\ UNCHANGED <<state, parent, child, queueEnd, passes, stack>>
     ELSE
       /\ abandon(Base, stack, "unsubscribe")
       /\ unsubReturned' = (unsubReturned \/ state[Base] = "Closed")
  /\ UNCHANGED <<nextIndex, nodes, configVars, otherVars, delivered, torn, sink, subLog,
                 thrownLog, routed, raised, throws>>

\* the steps user code holds: all but the consumer-side step of endWithHandler
UserSteps == Steps \ {Base}

Next ==
  \/ \E s \in UserSteps, it \in UserIterations : CallEmit(s, it)
  \/ \E s \in UserSteps : CallAbandon(s)
  \/ CallUnsubscribe
  \/ UserReturn
  \/ UserThrow
  \/ DrainLoop
  \/ InvokeHandler
  \/ CatchAbandon
  \/ RouteError
  \/ RunClosers

Spec == Init /\ [][Next]_vars

\* The engine under user code that only emits and returns: no callback
\* throws, nothing is abandoned from outside
EmitNext ==
  \/ \E s \in UserSteps, it \in UserIterations : EmitOnly(s, it)
  \/ UserReturn
  \/ DrainLoop
  \/ InvokeHandler
  \/ RunClosers

EmitSpec == Init /\ [][EmitNext]_vars

----------------------------------------------------------------------------
\* SyncSubject, lines 279-318: two steps, _output -> handler, the handler
\* step's controller calling notifySubscribers (lines 326-367).  Listeners are
\* kept in a linked list of records {handler, addedAfter, nextChild}, which
\* subscribe(stream, handler) (src/unnamed/part_000, lines 318-340; commented
\* out in core.mjs, 369-398) appends to.  A listener is named by its record.

OutputStep == 1
HandlerStep == 2
SubjectSteps == {OutputStep, HandlerStep}

\* the error JavaScript raises for line 347 when prevChild is null
TypeError == 99

\* nothing has run yet
NothingRan ==
  /\ nodes = <<>>
  /\ unsubscribed = FALSE
  /\ stack = <<>>
  /\ delivered = <<>>
  /\ torn = <<>>
  /\ passes = <<>>
  /\ sink = <<>>
  /\ subLog = <<>>
  /\ thrownLog = <<>>
  /\ routed = <<>>
  /\ raised = FALSE
  /\ unsubReturned = FALSE
  /\ lastCall = [op |-> "none", step |-> Null]
  /\ calls = 0
  /\ throws = 0

\* the constructor, lines 280-294
SubjectInit ==
  /\ state = [s \in SubjectSteps |-> "Open"]
  /\ parent = [s \in SubjectSteps |-> IF s = HandlerStep THEN OutputStep ELSE Null]
  /\ child = [s \in SubjectSteps |-> IF s = OutputStep THEN HandlerStep ELSE Null]
  /\ controller = [s \in SubjectSteps |-> s = HandlerStep]
  /\ onClose = [s \in SubjectSteps |-> FALSE]
  /\ hasOnError = FALSE
  /\ queueEnd = [s \in SubjectSteps |-> Null]
  /\ nextIndex = [s \in SubjectSteps |-> 0]
  /\ NothingRan
  /\ NoSubject
  /\ code = [s \in SubjectSteps |-> UserCode]
  /\ closer = [s \in SubjectSteps |-> UserCode]
  /\ NoPipes

\* makeChild, core.mjs lines 57-63
makeChild(handler, addedAfter) ==
  [handler |-> handler, addedAfter |-> addedAfter, nextChild |-> Null]

\* the walk of notifySubscribers that is running: the queue node it broadcasts
Broadcasting ==
  LET ks == {k \in DOMAIN stack : stack[k].kind = "notify"}
  IN IF ks = {} THEN Null ELSE stack[CHOOSE k \in ks : \A j \in ks : j <= k].active

\* user code of the subject's clients: the top level, or a listener's handler
InListenerCode == IF stack = <<>> THEN TRUE ELSE Top.kind = "user" /\ Top.pc = "listener"

\* the listener whose handler is running on top of the stack, or Null
RunningListener == IF stack = <<>> THEN Null ELSE Top.step

\* the while loop of part_000 lines 325-333, started at the live record c:
\* the records after its splices, and the record it stops at
RECURSIVE SpliceToTail(_, _)
SpliceToTail(rs, c) ==
  LET n == rs[c].nextChild IN
  IF n = Null THEN [recs |-> rs, tail |-> c]
  ELSE IF rs[n].handler # Null THEN SpliceToTail(rs, n)
  ELSE SpliceToTail([rs EXCEPT ![c].nextChild = rs[n].nextChild], c)

\* subscribe(stream, handler), part_000 lines 318-340; the iteration object
\* of _queueEnd is named by its queue node
subscribe ==
  LET r == Len(recs) + 1
      rec == makeChild(r, queueEnd[OutputStep])
  IN
  IF children # Null /\ recs[children].handler # Null THEN
    LET w == SpliceToTail(recs, children) IN
    /\ recs' = Append([w.recs EXCEPT ![w.tail].nextChild = r], rec)
    /\ children' = children
  ELSE
    /\ recs' = Append(recs, rec)
    /\ children' = r

\* a client calls subject.subscribe(handler)
CallSubscribe ==
  /\ InListenerCode
  /\ Len(recs) < MaxListeners
  /\ subscribe
  /\ joins' = Append(joins, [during |-> Broadcasting, at |-> Len(nodes),
                             left |-> FALSE, leftDuring |-> Null, leftBySelf |-> FALSE])
  /\ UNCHANGED <<engineVars, configVars, pipeVars, stack, historyVars, heard>>

\* a client cancels the listener r, from the top level or from r's own
\* handler: its record's handler is set to null (the Child typedef, core.mjs
\* lines 43-46)
CallUnsubscribeListener(r) ==
  /\ InListenerCode
  /\ RunningListener \in {Null, r}
  /\ recs[r].handler # Null
  /\ recs' = [recs EXCEPT ![r].handler = Null]
  /\ joins' = [joins EXCEPT ![r].left = TRUE, ![r].leftDuring = Broadcasting,
                            ![r].leftBySelf = (RunningListener = r)]
  /\ UNCHANGED <<engineVars, configVars, pipeVars, stack, historyVars, children, heard>>

\* a client calls subject.next(v), complete() or error(e), lines 301-313
SubjectEmit(it) ==
  /\ InListenerCode
  /\ calls < MaxEvents
  /\ UserEmit(OutputStep, it)

\* a listener's handler returns or throws
ListenerReturn == OnTop("user", {"listener"}) /\ UserReturn
ListenerThrow == OnTop("user", {"listener"}) /\ UserThrow

\* the first record with a handler, from record c on (lines 331-333)
RECURSIVE SkipDead(_)
SkipDead(c) ==
  IF c # Null /\ recs[c].handler = Null THEN SkipDead(recs[c].nextChild) ELSE c

\* the handler step's controller (lines 289-291) enters notifySubscribers:
\* lines 327-340
NotifyStart ==
  /\ OnTop("user", {"controller"})
  /\ Top.step = HandlerStep
  /\ children' = SkipDead(children)
  /\ stack' = SetTop([Frame("notify", "loop", HandlerStep) EXCEPT
                        !.child = SkipDead(children),
                        !.active = stack[Len(stack) - 1].active])
  /\ UNCHANGED <<engineVars, configVars, pipeVars, historyVars, recs, heard, joins>>

\* faulty variant: nextChild is read after the handler returned
NextAfterCall(captured, c) == recs[c].nextChild

\* the record the walk goes to after the handler of c returned: nextChild was
\* read at line 342, before the call
NextAfterHandler(captured, c) == captured

\* faulty variant: a cancelled listener is still called
HandlerAlwaysSet(rec) == TRUE

\* "if (!handler)" of line 343, negated
HandlerIsSet(rec) == rec.handler # Null

\* one round of the while loop of lines 341-366, up to the handler call of
\* line 361, or from its return
NotifyLoop ==
  /\ OnTop("notify", {"loop", "called"})
  /\ LET f == Top
         prevChild == IF f.pc = "called" THEN f.child ELSE f.prevChild
         c == IF f.pc = "called" THEN NextAfterHandler(f.nextChild, f.child) ELSE f.child
         g == [f EXCEPT !.pc = "loop", !.child = c, !.prevChild = prevChild]
     IN
     IF c = Null THEN
       /\ stack' = Below
       /\ UNCHANGED <<recs, heard>>
     ELSE
       LET rec == recs[c] IN
       IF ~HandlerIsSet(rec) THEN
         IF prevChild = Null THEN
           /\ stack' = [Below EXCEPT ![Len(Below)] =
                          [@ EXCEPT !.pc = "catch", !.err = TypeError, !.active = Null]]
           /\ UNCHANGED <<recs, heard>>
         ELSE
           /\ recs' = [recs EXCEPT ![prevChild].nextChild = rec.nextChild]
           /\ stack' = SetTop([g EXCEPT !.child = rec.nextChild])
           /\ heard' = heard
       ELSE IF rec.addedAfter # Null THEN
         /\ heard' = heard
         /\ IF rec.addedAfter = f.active THEN
              /\ recs' = [recs EXCEPT ![c].addedAfter = Null]
              /\ stack' = SetTop([g EXCEPT !.prevChild = c, !.child = rec.nextChild])
            ELSE
              /\ recs' = recs
              /\ stack' = SetTop([g EXCEPT !.child = rec.nextChild])
       ELSE
         /\ heard' = Append(heard, [listener |-> c, node |-> f.active,
                                    index |-> nodes[f.active].index])
         /\ stack' = Append(SetTop([g EXCEPT !.pc = "called",
                                             !.nextChild = rec.nextChild]),
                            UserFrame("listener", c))
         /\ recs' = recs
  /\ UNCHANGED <<engineVars, configVars, pipeVars, historyVars, children, joins>>

SubjectNext ==
  \/ \E it \in {NextIter, CompleteIter} : SubjectEmit(it)
  \/ CallSubscribe
  \/ \E r \in DOMAIN recs : CallUnsubscribeListener(r)
  \/ ListenerReturn
  \/ ListenerThrow
  \/ NotifyStart
  \/ NotifyLoop
  \/ DrainLoop
  \/ InvokeHandler
  \/ CatchAbandon
  \/ RouteError
  \/ RunClosers

SubjectSpec == SubjectInit /\ [][SubjectNext]_vars

----------------------------------------------------------------------------
\* Pipelines: TxObservable (lines 427-474), makeTx (484-486), runTx
\* (498-500), makeTxOp (509-511), with the operators of src/unnamed/part_002.
\* The program constructs the definitions of plan, one TxObservable each,
\* subscribes once to the last of them with a handler object whose callbacks
\* return normally, and may unsubscribe.

\* a TxObservable: _parent, and _open named by the operator that made it and
\* by that operator's arguments
Def(op) ==
  [op |-> op, parent |-> Null, items |-> <<>>, throwsOn |-> {}, arg |-> Null]

\* {done: false, value: v}
Item(v) == [kind |-> "next", value |-> v]

\* the variables a closure shares with the closures made next to it
Cell ==
  [outerCompleted |-> FALSE, children |-> <<>>, alive |-> TRUE, queue |-> <<>>,
   nextIndex |-> 0, flag |-> FALSE, output |-> Null, def |-> Null]

\* gen, gen._parent, ... down to the source (the walk of lines 446-459)
RECURSIVE ChainOf(_)
ChainOf(g) == IF obs[g].parent = Null THEN <<g>> ELSE <<g>> \o ChainOf(obs[g].parent)

NoClosure == Closure("none")

\* faulty variant: the walk starts at the source's side
OpenersFromSource(g, first) ==
  LET chain == ChainOf(g)
      ops == [k \in 1..(Len(chain) - 1) |->
                [Closure(obs[chain[Len(chain) - k]].op) EXCEPT !.def = chain[Len(chain) - k]]]
  IN IF first.op = "none" THEN ops ELSE <<first>> \o ops

\* the open functions the loop of lines 447-459 calls for gen = g, in order:
\* runTx's code first (line 499), then the operators' from the consumer side
Openers(g, first) ==
  LET chain == ChainOf(g)
      ops == [k \in 1..(Len(chain) - 1) |->
                [Closure(obs[chain[k]].op) EXCEPT !.def = chain[k]]]
  IN IF first.op = "none" THEN ops ELSE <<first>> \o ops

\* operators whose open function declares variables for its closures
NeedsCell(o) == o.op \in {"mergeAll", "resolvePromises"}

\* what Subscribe leaves alone
subscribeKeeps == <<nodes, unsubscribed, hasOnError, delivered, torn, passes, sink,
                    subLog, thrownLog, routed, raised, unsubReturned, lastCall,
                    calls, throws, subjectVars>>

\* the controller the open function o returns for the step t; env is the
\* cell of the variables the open function declares
ControllerOf(o, t, env) ==
  IF NeedsCell(o) THEN [o EXCEPT !.env = env, !.out = t]
  ELSE IF o.op \in {"map", "filter"} THEN [o EXCEPT !.out = t]
  ELSE [o EXCEPT !.self = t]

\* what the open function o assigns to the onClose of the step it is given
CloserOf(o, env) ==
  IF o.op = "mergeAll" THEN [Closure("abandonAll") EXCEPT !.env = env]
  ELSE IF o.op = "resolvePromises" THEN [Closure("dropPromise") EXCEPT !.env = env]
  ELSE NoClosure

\* new TxStep(c), lines 82-125: a step with no controller, linked to c
NewStep(c) ==
  LET n == Len(state) IN
  /\ state' = Append(state, "Open")
  /\ parent' = IF c = Null THEN Append(parent, Null)
               ELSE [Append(parent, Null) EXCEPT ![c] = n + 1]
  /\ child' = Append(child, c)
  /\ queueEnd' = Append(queueEnd, Null)
  /\ nextIndex' = Append(nextIndex, 0)
  /\ controller' = Append(controller, FALSE)
  /\ code' = Append(code, NoClosure)
  /\ closer' = Append(closer, NoClosure)
  /\ onClose' = Append(onClose, FALSE)

\* TxObservable.subscribe(handler), lines 443-447, called for gen = g with the
\* stack stk and the closure variables cs: base = endWithHandler(handler),
\* top = new TxStep(base).  The frame keeps base (step), top (child), the
\* open functions the loop has yet to call (openers) and the source (env).
Subscribe(g, first, callbacks, stk, cs) ==
  LET n == Len(state)
      base == n + 1
      top == n + 2
      src == ChainOf(g)[Len(ChainOf(g))]
  IN
  /\ state' = state \o <<"Open", "Open">>
  /\ parent' = parent \o <<top, Null>>
  /\ child' = child \o <<Null, base>>
  /\ queueEnd' = queueEnd \o <<Null, Null>>
  /\ nextIndex' = nextIndex \o <<0, 0>>
  /\ controller' = controller \o <<TRUE, FALSE>>
  /\ code' = code \o <<EndCode(callbacks), NoClosure>>
  /\ closer' = closer \o <<NoClosure, NoClosure>>
  /\ onClose' = onClose \o <<FALSE, FALSE>>
  /\ cells' = cs
  /\ opened' = opened
  /\ stack' = stk \o << [Frame("subscribe", "loop", base) EXCEPT
                          !.child = top, !.openers = Openers(g, first), !.env = src] >>

\* lines 452-453, top.controller = code(top): the next open function is
\* called with top and the controller it returns is installed.  What the
\* open functions of the operators do besides is done here: they declare
\* variables, set top.onClose, set output.onClose (concat, defer) or add top
\* to children (mergeAll).
SubscribeOpen ==
  /\ OnTop("subscribe", {"loop"})
  /\ Top.openers # <<>>
  /\ LET o == Head(Top.openers)
         t == Top.child
         env == Len(cells) + 1
         setsOutput == o.op \in {"concat.inner", "forward"}
         own == [closer EXCEPT ![t] = CloserOf(o, env)]
     IN
     /\ code' = [code EXCEPT ![t] = ControllerOf(o, t, env)]
     /\ controller' = [controller EXCEPT ![t] = TRUE]
     /\ closer' = IF setsOutput
                  THEN [own EXCEPT ![o.out] = [Closure("abandon") EXCEPT !.self = t]]
                  ELSE own
     /\ onClose' = IF setsOutput
                   THEN [onClose EXCEPT ![o.out] = TRUE]
                   ELSE [onClose EXCEPT ![t] = CloserOf(o, env).op # "none"]
     /\ cells' = IF o.op = "mergeAll.inner"
                 THEN [cells EXCEPT ![o.env].children = Append(@, t)]
                 ELSE IF NeedsCell(o) THEN Append(cells, Cell) ELSE cells
     /\ opened' = Append(opened, [def |-> o.def, op |-> o.op, step |-> t,
                                  base |-> Top.step])
     /\ stack' = SetTop([Top EXCEPT !.pc = "step", !.openers = Tail(@)])
  /\ UNCHANGED <<state, parent, child, queueEnd, nextIndex, subscribeKeeps, obs,
                 timers, promises, sub, plan, userCalls>>

\* lines 455-458, top = new TxStep(top); gen = parent
SubscribeNewStep ==
  /\ OnTop("subscribe", {"step"})
  /\ NewStep(Top.child)
  /\ stack' = SetTop([Top EXCEPT !.pc = "loop", !.child = Len(state) + 1])
  /\ UNCHANGED <<subscribeKeeps, cells, obs, timers, promises, sub, plan, opened,
                 userCalls>>

\* line 462, const sub = new TxSubscription(base), once the loop has ended
SubscribeCreate ==
  /\ OnTop("subscribe", {"loop"})
  /\ Top.openers = <<>>
  /\ stack' = SetTop([Top EXCEPT !.pc = "start", !.flag = TRUE])
  /\ UNCHANGED <<engineVars, configVars, historyVars, otherVars>>

\* lines 465-466, code(top) for the open function of the source
SubscribeSource ==
  /\ OnTop("subscribe", {"start"})
  /\ opened' = Append(opened, [def |-> Top.env, op |-> obs[Top.env].op,
                               step |-> Top.child, base |-> Top.step])
  /\ stack' = SetTop([Top EXCEPT !.pc = "open"])
                \o << [UserFrame("open", Top.child) EXCEPT !.env = Top.env] >>
  /\ UNCHANGED <<engineVars, configVars, historyVars, subjectVars, code, closer,
                 cells, obs, timers, promises, sub, plan, userCalls>>

\* faulty variant: the constructor runs the open function it is given
EagerOpen(d) == <<[def |-> Len(obs) + 1, op |-> d.op, step |-> Null, base |-> Null]>>

\* what the TxObservable constructor (lines 435-438) calls: nothing
OpenedByConstructor(d) == <<>>

\* makeTx(code) or makeTxOp(code)(input): new TxObservable(parent, code)
Construct ==
  /\ stack = <<>>
  /\ Len(obs) < Len(plan)
  /\ obs' = Append(obs, plan[Len(obs) + 1])
  /\ opened' = opened \o OpenedByConstructor(plan[Len(obs) + 1])
  /\ UNCHANGED <<engineVars, configVars, stack, historyVars, subjectVars, code,
                 closer, cells, timers, promises, sub, plan, userCalls>>

\* the program subscribes to the pipeline it has defined
CallSubscribeTop ==
  /\ stack = <<>>
  /\ sub = Null
  /\ plan # <<>> /\ Len(obs) = Len(plan)
  /\ Subscribe(Len(obs), NoClosure, TRUE, stack, cells)
  /\ UNCHANGED <<subscribeKeeps, obs, timers, promises, sub, plan, userCalls>>

\* the source's open function has returned: subscribe returns the
\* subscription (line 468)
SubscribeReturn ==
  /\ OnTop("subscribe", {"open"})
  /\ stack' = Below
  /\ sub' = IF Below = <<>> THEN Top.step ELSE sub
  /\ UNCHANGED <<engineVars, configVars, historyVars, subjectVars, code, closer,
                 cells, obs, timers, promises, plan, opened, userCalls>>

\* what a script that only calls runEvent leaves alone
emitKeeps == <<parent, child, unsubscribed, configVars, delivered, torn, passes,
               sink, subLog, thrownLog, routed, raised, unsubReturned, lastCall,
               calls, throws, subjectVars>>

\* a function of an operator has run to its end
ScriptReturn ==
  /\ OnTop("user", {"return"})
  /\ stack' = Below
  /\ UNCHANGED <<engineVars, configVars, historyVars, otherVars>>

\* the controller of kind op is on top of the stack, just called
InController(op) == OnTop("user", {"controller"}) /\ code[Top.step].op = op

\* the iteration and the index the controller on top of the stack was called
\* with (line 255)
ArgIter == nodes[stack[Len(stack) - 1].active].iteration
ArgIndex == nodes[stack[Len(stack) - 1].active].index


\* the open function of definition op is on top of the stack
InOpen(op) == OnTop("user", {"open"}) /\ obs[Top.env].op = op

\* faulty variant: the loop stops one element early
FromStopsEarly(constants, i) ==
  IF i < Len(constants) - 1 THEN Item(constants[i + 1]) ELSE CompleteIter

\* what the open function of from() emits in its call number i (from 0):
\* the loop of lines 22-24, then line 25
FromEmits(constants, i) ==
  IF i < Len(constants) THEN Item(constants[i + 1]) ELSE CompleteIter

\* from(constants), part_002 lines 19-27: the open function, one call of
\* output.next or output.complete at a time
FromOpen ==
  /\ InOpen("from")
  /\ LET f == Top
         it == FromEmits(obs[f.env].items, f.i)
     IN runEvent(f.step, it,
                 SetTop(IF IsDone(it) THEN [f EXCEPT !.pc = "return"]
                                      ELSE [f EXCEPT !.i = @ + 1]), 0)
  /\ UNCHANGED <<emitKeeps, pipeVars>>

\* a source written with makeTx by the program: it emits its items and then
\* fails, output.error(arg)
RaiseOpen ==
  /\ InOpen("raise")
  /\ LET f == Top
         items == obs[f.env].items
     IN IF f.i < Len(items)
        THEN runEvent(f.step, Item(items[f.i + 1]), SetTop([f EXCEPT !.i = @ + 1]), 0)
        ELSE runEvent(f.step, ErrorIter(obs[f.env].arg), SetTop([f EXCEPT !.pc = "return"]), 0)
  /\ UNCHANGED <<emitKeeps, pipeVars>>

\* defer(code), part_002 lines 91-103: the open function calls the factory
\* and runs what it returned; the factory returns the definition arg
DeferOpen ==
  /\ InOpen("defer")
  /\ userCalls' = Append(userCalls, [fn |-> "factory", def |-> Top.env,
                                     value |-> Null, index |-> Null])
  /\ Subscribe(obs[Top.env].arg, [Closure("forward") EXCEPT !.out = Top.step],
               FALSE, SetTop([Top EXCEPT !.pc = "return"]), cells)
  /\ UNCHANGED <<subscribeKeeps, obs, timers, promises, sub, plan>>

\* (iter) => { output.iter(iter) }, part_002 lines 97-99
ForwardController ==
  /\ InController("forward")
  /\ runEvent(code[Top.step].out, ArgIter, SetTop([Top EXCEPT !.pc = "return"]), 0)
  /\ UNCHANGED <<emitKeeps, pipeVars>>

\* the onClose of kind op is on top of the stack, just called (line 187; no
\* operator assigns onClose while a cascade runs, so the closure the cascade
\* collected is the one the step still holds)
InCloser(op) == OnTop("user", {"onClose"}) /\ closer[Top.step].op = op

\* () => { source.abandon() }, part_002 lines 58-60 and 93-95
AbandonCloser ==
  /\ InCloser("abandon")
  /\ abandon(closer[Top.step].self, SetTop([Top EXCEPT !.pc = "return"]), "abandon")
  /\ UNCHANGED <<nextIndex, nodes, unsubscribed, configVars, otherVars, delivered,
                 torn, sink, subLog, thrownLog, routed, raised, unsubReturned,
                 lastCall, calls, throws>>

\* the function given to map()
mapper(x, i) == 10 * x + i

\* faulty variant: map forgets the index
MapperWithoutIndex(x, i) == mapper(x, 0)

\* mapper(iter.value, index) of line 181
Mapped(x, i) == mapper(x, i)

\* map(mapper), part_002 lines 176-184: the handler, when the mapper returns
MapController ==
  /\ InController("map")
  /\ LET c == Top.step
         d == obs[code[c].def]
         stk == SetTop([Top EXCEPT !.pc = "return"])
     IN IF IsDone(ArgIter) THEN
          /\ runEvent(c, ArgIter, stk, 0)
          /\ userCalls' = userCalls
        ELSE
          /\ ArgIndex \notin d.throwsOn
          /\ runEvent(c, Item(Mapped(ArgIter.value, ArgIndex)), stk, 0)
          /\ userCalls' = Append(userCalls, [fn |-> "mapper", def |-> code[c].def,
                                             value |-> ArgIter.value, index |-> ArgIndex])
  /\ UNCHANGED <<emitKeeps, code, closer, cells, obs, timers, promises, sub, plan,
                 opened>>

\* the mapper throws: the exception leaves the handler of line 181
MapperThrows ==
  /\ InController("map")
  /\ ~IsDone(ArgIter)
  /\ ArgIndex \in obs[code[Top.step].def].throwsOn
  /\ Throw

\* EMPTY, core.mjs lines 522-524: the open function completes at once
EmptyOpen ==
  /\ InOpen("empty")
  /\ runEvent(Top.step, CompleteIter, SetTop([Top EXCEPT !.pc = "return"]), 0)
  /\ UNCHANGED <<emitKeeps, pipeVars>>

\* concat(...els), part_002 lines 37-83: the open function declares nextIndex
\* (line 43) and calls runNext (line 81); runNext declares its own
\* runNextSynchronous (line 46), which the handlers it makes close over
ConcatOpen ==
  /\ InOpen("concat")
  /\ cells' = cells \o << [Cell EXCEPT !.output = Top.step, !.def = Top.env],
                          [Cell EXCEPT !.flag = TRUE] >>
  /\ stack' = SetTop([Top EXCEPT !.pc = "return"]) \o
                << [UserFrame("runNext", Top.step) EXCEPT
                      !.env = Len(cells) + 1, !.flag = Len(cells) + 2] >>
  /\ UNCHANGED <<engineVars, configVars, historyVars, subjectVars, code, closer,
                 obs, timers, promises, sub, plan, opened, userCalls>>

\* runNext is on top of the stack, at the test of its while loop (line 50)
InRunNext == OnTop("user", {"runNext"})

\* the elements concat was given
ElsOf(env) == obs[cells[env].def].items

\* lines 50-55: one more turn of the loop, all elements have run
ConcatComplete ==
  /\ InRunNext
  /\ cells[Top.flag].flag
  /\ cells[Top.env].nextIndex = Len(ElsOf(Top.env))
  /\ cells' = [cells EXCEPT ![Top.flag].flag = FALSE, ![Top.env].nextIndex = @ + 1]
  /\ runEvent(cells[Top.env].output, CompleteIter, stack, 0)
  /\ UNCHANGED <<emitKeeps, code, closer, obs, timers, promises, sub, plan, opened,
                 userCalls>>

\* lines 50-73: one more turn of the loop, runTx(els[index], ...)
ConcatSubscribe ==
  /\ InRunNext
  /\ cells[Top.flag].flag
  /\ cells[Top.env].nextIndex # Len(ElsOf(Top.env))
  /\ Subscribe(ElsOf(Top.env)[cells[Top.env].nextIndex + 1],
               [Closure("concat.inner") EXCEPT
                  !.env = Top.env, !.flag = Top.flag, !.out = cells[Top.env].output],
               FALSE, stack,
               [cells EXCEPT ![Top.flag].flag = FALSE, ![Top.env].nextIndex = @ + 1])
  /\ UNCHANGED <<subscribeKeeps, obs, timers, promises, sub, plan, userCalls>>

\* lines 50 and 78: the loop ends, runNextSynchronous = true, runNext returns
ConcatRunNextReturn ==
  /\ InRunNext
  /\ ~cells[Top.flag].flag
  /\ cells' = [cells EXCEPT ![Top.flag].flag = TRUE]
  /\ stack' = Below
  /\ UNCHANGED <<engineVars, configVars, historyVars, subjectVars, code, closer,
                 obs, timers, promises, sub, plan, opened, userCalls>>

\* faulty variant: any terminal ends the element
IsTerminal(it) == IsDone(it)

\* iter.done && !iter.value, line 63
IsCompletion(it) == it.kind = "complete"

\* lines 62-72, the handler of an element: a completion while the loop that
\* subscribed is still running tells the loop to go on (line 65)
ConcatInnerSynchronous ==
  /\ InController("concat.inner")
  /\ IsCompletion(ArgIter)
  /\ ~cells[code[Top.step].flag].flag
  /\ cells' = [cells EXCEPT ![code[Top.step].flag].flag = TRUE]
  /\ stack' = Below
  /\ UNCHANGED <<engineVars, configVars, historyVars, subjectVars, code, closer,
                 obs, timers, promises, sub, plan, opened, userCalls>>

\* lines 62-72: a completion after that loop has returned calls runNext
\* (line 67)
ConcatInnerRunNext ==
  /\ InController("concat.inner")
  /\ IsCompletion(ArgIter)
  /\ cells[code[Top.step].flag].flag
  /\ cells' = Append(cells, [Cell EXCEPT !.flag = TRUE])
  /\ stack' = SetTop([Top EXCEPT !.pc = "return"]) \o
                << [UserFrame("runNext", code[Top.step].out) EXCEPT
                      !.env = code[Top.step].env, !.flag = Len(cells) + 1] >>
  /\ UNCHANGED <<engineVars, configVars, historyVars, subjectVars, code, closer,
                 obs, timers, promises, sub, plan, opened, userCalls>>

\* lines 62-72: items and errors go to the output (line 70)
ConcatInnerForward ==
  /\ InController("concat.inner")
  /\ ~IsCompletion(ArgIter)
  /\ runEvent(code[Top.step].out, ArgIter, SetTop([Top EXCEPT !.pc = "return"]), 0)
  /\ UNCHANGED <<emitKeeps, pipeVars>>

\* timer(timeMs, arg), part_002 lines 112-124: the open function registers
\* the timeout and sets output.onClose to clear it
TimerOpen ==
  /\ InOpen("timer")
  /\ timers' = Append(timers, [output |-> Top.step, arg |-> obs[Top.env].arg,
                               state |-> "pending"])
  /\ onClose' = [onClose EXCEPT ![Top.step] = TRUE]
  /\ closer' = [closer EXCEPT ![Top.step] =
                  [Closure("clearTimeout") EXCEPT !.env = Len(timers) + 1]]
  /\ stack' = Below
  /\ UNCHANGED <<engineVars, controller, hasOnError, historyVars, subjectVars,
                 code, cells, obs, promises, sub, plan, opened, userCalls>>

\* the event loop runs the callback of a timeout that was not cleared
Fires(t) == t.state = "pending"

\* the timeout's callback starts: output.onClose = null, line 115
TimerFire ==
  /\ stack = <<>>
  /\ \E t \in DOMAIN timers :
       /\ Fires(timers[t])
       /\ timers' = [timers EXCEPT ![t].state = "fired"]
       /\ onClose' = [onClose EXCEPT ![timers[t].output] = FALSE]
       /\ stack' = << [UserFrame("timeout", timers[t].output) EXCEPT !.env = t] >>
  /\ UNCHANGED <<engineVars, controller, hasOnError, historyVars, subjectVars,
                 code, closer, cells, obs, promises, sub, plan, opened, userCalls>>

\* faulty variant: the callback only completes
TimerCompletesOnly(arg, i) == CompleteIter

\* what the callback emits in its call number i: output.next(arg), then
\* output.complete(), lines 116-117
TimerEmits(arg, i) == IF i = 0 THEN Item(arg) ELSE CompleteIter

\* the callback's calls of lines 116-117, one at a time
TimerEmit ==
  /\ OnTop("user", {"timeout"})
  /\ LET it == TimerEmits(timers[Top.env].arg, Top.i)
     IN runEvent(Top.step, it,
                 SetTop(IF Top.i = 0 THEN [Top EXCEPT !.i = 1]
                                     ELSE [Top EXCEPT !.pc = "return"]), 0)
  /\ UNCHANGED <<emitKeeps, pipeVars>>

\* () => { clearTimeout(timeoutId) }, lines 120-122
ClearTimeoutCloser ==
  /\ InCloser("clearTimeout")
  /\ timers' = [timers EXCEPT ![closer[Top.step].env].state =
                  IF @ = "pending" THEN "cleared" ELSE @]
  /\ stack' = Below
  /\ UNCHANGED <<engineVars, configVars, historyVars, subjectVars, code, closer,
                 cells, obs, promises, sub, plan, opened, userCalls>>

\* mergeAll(), part_002 lines 203-246.  Its open function declares
\* outerCompleted and children (lines 205-206) and sets output.onClose (lines
\* 208-212); Subscribe has made them.  The variables of the handler on top:
MergeCell == cells[code[Top.step].env]

\* lines 215-219: the outer source ended with an error, or with no child
\* running: the handler passes the terminal on
MergeOuterEnds ==
  /\ InController("mergeAll")
  /\ IsDone(ArgIter)
  /\ (IF IsError(ArgIter) THEN TRUE ELSE MergeCell.children = <<>>)
  /\ runEvent(code[Top.step].out, ArgIter, SetTop([Top EXCEPT !.pc = "return"]), 0)
  /\ UNCHANGED <<emitKeeps, pipeVars>>

\* lines 220-223: the outer source completed while children run
MergeOuterWaits ==
  /\ InController("mergeAll")
  /\ IsDone(ArgIter)
  /\ ~(IsError(ArgIter) \/ MergeCell.children = <<>>)
  /\ cells' = [cells EXCEPT ![code[Top.step].env].outerCompleted = TRUE]
  /\ stack' = Below
  /\ UNCHANGED <<engineVars, configVars, historyVars, subjectVars, code, closer,
                 obs, timers, promises, sub, plan, opened, userCalls>>

\* lines 225-242: an item of the outer source is a definition, which the
\* handler runs; children.add(child) of line 226 is part of SubscribeOpen
MergeOuterSubscribes ==
  /\ InController("mergeAll")
  /\ ~IsDone(ArgIter)
  /\ Subscribe(ArgIter.value,
               [Closure("mergeAll.inner") EXCEPT
                  !.env = code[Top.step].env, !.out = code[Top.step].out],
               FALSE, SetTop([Top EXCEPT !.pc = "return"]), cells)
  /\ UNCHANGED <<subscribeKeeps, obs, timers, promises, sub, plan, userCalls>>

\* children.delete(child), line 230
Without(seq, c) == SelectSeq(seq, LAMBDA x : x # c)

\* faulty variant: the last child to complete does not wait for the outer
\* source
LastChildEnds(cell, left, it) == IsError(it) \/ left = <<>>

\* the test of line 231, left being the children after line 230
ChildEnds(cell, left, it) == IsError(it) \/ (cell.outerCompleted /\ left = <<>>)

\* lines 229-236: a child ended, and its terminal goes to the output
MergeInnerEnds ==
  /\ InController("mergeAll.inner")
  /\ IsDone(ArgIter)
  /\ LET left == Without(MergeCell.children, Top.step) IN
     /\ ChildEnds(MergeCell, left, ArgIter)
     /\ cells' = [cells EXCEPT ![code[Top.step].env].children = left,
                               ![code[Top.step].env].outerCompleted = FALSE]
  /\ runEvent(code[Top.step].out, ArgIter, SetTop([Top EXCEPT !.pc = "return"]), 0)
  /\ UNCHANGED <<emitKeeps, code, closer, obs, timers, promises, sub, plan, opened,
                 userCalls>>

\* lines 229-231: a child completed, and the output stays open
MergeInnerWaits ==
  /\ InController("mergeAll.inner")
  /\ IsDone(ArgIter)
  /\ LET left == Without(MergeCell.children, Top.step) IN
     /\ ~ChildEnds(MergeCell, left, ArgIter)
     /\ cells' = [cells EXCEPT ![code[Top.step].env].children = left]
  /\ stack' = Below
  /\ UNCHANGED <<engineVars, configVars, historyVars, subjectVars, code, closer,
                 obs, timers, promises, sub, plan, opened, userCalls>>

\* lines 237-240: an item of a child goes to the output
MergeInnerForward ==
  /\ InController("mergeAll.inner")
  /\ ~IsDone(ArgIter)
  /\ runEvent(code[Top.step].out, ArgIter, SetTop([Top EXCEPT !.pc = "return"]), 0)
  /\ UNCHANGED <<emitKeeps, pipeVars>>

\* lines 208-212, the onClose of mergeAll: children.forEach(child.abandon()),
\* one child at a time in insertion order
AbandonAllCloser ==
  /\ InCloser("abandonAll")
  /\ LET running == cells[closer[Top.step].env].children IN
     IF Top.i < Len(running)
     THEN abandon(running[Top.i + 1], SetTop([Top EXCEPT !.i = @ + 1]), "abandon")
     ELSE /\ stack' = Below
          /\ UNCHANGED <<state, parent, child, queueEnd, passes>>
  /\ UNCHANGED <<nextIndex, nodes, unsubscribed, configVars, otherVars, delivered,
                 torn, sink, subLog, thrownLog, routed, raised, unsubReturned,
                 lastCall, calls, throws>>

\* resolvePromises(), part_002 lines 132-167.  Its open function declares
\* promise (line 135) and sets output.onClose (lines 137-139); Subscribe has
\* made them.  The chain promise = promise.then(...) is a queue: a reaction
\* runs after the reactions chained before it and after its own value has
\* settled; the cell's alive tells that promise is not null.

\* an item above PromiseBase is a promise the program made
PromiseBase == 10
IsPromise(v) == v > PromiseBase
PromiseOf(v) == v - PromiseBase

\* what a promise given as an item resolves to, and what it is rejected with
ResolvedValue(v) == v + PromiseBase
RejectedWith(v) == v + 2 * PromiseBase

\* lines 142-145: an error of the input is passed on at once
ResolvePassesError ==
  /\ InController("resolvePromises")
  /\ IsError(ArgIter)
  /\ runEvent(code[Top.step].out, ArgIter, SetTop([Top EXCEPT !.pc = "return"]), 0)
  /\ UNCHANGED <<emitKeeps, pipeVars>>

\* lines 146-163: a completion (148-150) or an item (154-163) is chained
\* behind the earlier ones
ResolveChains ==
  /\ InController("resolvePromises")
  /\ ~IsError(ArgIter)
  /\ cells[code[Top.step].env].alive
  /\ cells' = [cells EXCEPT ![code[Top.step].env].queue = Append(@, ArgIter)]
  /\ stack' = Below
  /\ UNCHANGED <<engineVars, configVars, historyVars, subjectVars, code, closer,
                 obs, timers, promises, sub, plan, opened, userCalls>>

\* a promise the program made settles
PromiseSettles ==
  /\ stack = <<>>
  /\ \E p \in DOMAIN promises : \E outcome \in {"resolved", "rejected"} :
       /\ promises[p] = "pending"
       /\ promises' = [promises EXCEPT ![p] = outcome]
  /\ UNCHANGED <<engineVars, configVars, stack, historyVars, subjectVars, code,
                 closer, cells, obs, timers, sub, plan, opened, userCalls>>

\* the chained iteration it can be reacted to: .then(() => iter.value) has
\* settled (line 155)
Settled(it) ==
  IF IsDone(it) \/ ~IsPromise(it.value) THEN TRUE
  ELSE promises[PromiseOf(it.value)] # "pending"

\* faulty variant: a rejection is delivered as a value
ReactionIgnoresRejection(it) ==
  IF IsDone(it) THEN it
  ELSE IF ~IsPromise(it.value) THEN Item(it.value)
  ELSE Item(ResolvedValue(it.value))

\* what the reaction to a chained iteration emits: lines 149, 158, 161
Reaction(it) ==
  IF IsDone(it) THEN it
  ELSE IF ~IsPromise(it.value) THEN Item(it.value)
  ELSE IF promises[PromiseOf(it.value)] = "resolved" THEN Item(ResolvedValue(it.value))
  ELSE ErrorIter(RejectedWith(it.value))

\* a promise tick: the reaction at the head of the chain runs, and emits
\* unless promise is null ("promise &&" of lines 149, 158, 161)
ResolveReacts ==
  /\ stack = <<>>
  /\ \E s \in DOMAIN code :
       /\ code[s].op = "resolvePromises"
       /\ LET c == code[s].env
              q == cells[c].queue
          IN /\ q # <<>>
             /\ Settled(q[1])
             /\ cells' = [cells EXCEPT ![c].queue = Tail(q)]
             /\ IF cells[c].alive
                THEN runEvent(code[s].out, Reaction(q[1]),
                              << Frame("user", "return", code[s].out) >>, 0)
                ELSE /\ stack' = stack
                     /\ UNCHANGED <<state, queueEnd, nextIndex, nodes>>
  /\ UNCHANGED <<emitKeeps, code, closer, obs, timers, promises, sub, plan, opened,
                 userCalls>>

\* () => { promise = null }, lines 137-139
DropPromiseCloser ==
  /\ InCloser("dropPromise")
  /\ cells' = [cells EXCEPT ![closer[Top.step].env].alive = FALSE]
  /\ stack' = Below
  /\ UNCHANGED <<engineVars, configVars, historyVars, subjectVars, code, closer,
                 obs, timers, promises, sub, plan, opened, userCalls>>

\* the functions given to filter(): predicate number k keeps the items x at
\* index i with x + i of parity k
filterFunc(k, x, i) == (x + i) % 2 = k

\* faulty variant: filter forgets the index
KeepsWithoutIndex(k, it, i) == IF IsDone(it) THEN TRUE ELSE filterFunc(k, it.value, 0)

\* iter.done || filterFunc(iter.value, index), line 194
Keeps(k, it, i) == IF IsDone(it) THEN TRUE ELSE filterFunc(k, it.value, i)

\* filter(filterFunc), part_002 lines 192-196: the handler; the predicate is
\* called for items only, and what it keeps goes to the output as it came
FilterController ==
  /\ InController("filter")
  /\ LET c == Top.step
         k == obs[code[c].def].arg
         stk == SetTop([Top EXCEPT !.pc = "return"])
     IN /\ IF Keeps(k, ArgIter, ArgIndex)
           THEN runEvent(c, ArgIter, stk, 0)
           ELSE /\ stack' = Below
                /\ UNCHANGED <<state, queueEnd, nextIndex, nodes>>
        /\ userCalls' =
             IF IsDone(ArgIter) THEN userCalls
             ELSE Append(userCalls, [fn |-> "filterFunc", def |-> code[c].def,
                                     value |-> ArgIter.value, index |-> ArgIndex])
  /\ UNCHANGED <<emitKeeps, code, closer, cells, obs, timers, promises, sub, plan,
                 opened>>

\* the subscriber's callback returns
SubscriberReturn == OnTop("user", {"subscriber"}) /\ UserReturn

\* the program, at the top level or in a callback of its subscriber, calls
\* subscription.unsubscribe() (lines 416-419) for the first time
PipeUnsubscribe ==
  /\ IF stack = <<>> THEN TRUE ELSE OnTop("user", {"subscriber"})
  /\ sub # Null
  /\ ~unsubscribed
  /\ unsubscribed' = TRUE
  /\ abandon(sub, stack, "unsubscribe")
  /\ unsubReturned' = (unsubReturned \/ state[sub] = "Closed")
  /\ lastCall' = [op |-> "unsubscribe", step |-> sub]
  /\ UNCHANGED <<nextIndex, nodes, configVars, otherVars, delivered, torn, sink,
                 subLog, thrownLog, routed, raised, calls, throws>>

\* the arrays over the two item values, up to MaxItems long
Values == {1, 2}
Arrays == UNION {[1..n -> Values] : n \in 0..MaxItems}

\* the value a failing source fails with
Failure == 9

From(items) == [Def("from") EXCEPT !.items = items]
Raise(items) == [Def("raise") EXCEPT !.items = items, !.arg = Failure]
Defer(inner) == [Def("defer") EXCEPT !.arg = inner]
Map(input, throwsOn) == [Def("map") EXCEPT !.parent = input, !.throwsOn = throwsOn]

\* the sources with a synchronous end
SyncSources == {From(a) : a \in Arrays} \cup {Raise(a) : a \in Arrays}

\* the indices a function given to an operator may throw at: none, or one
ThrowsOn == {{}} \cup {{i} : i \in 0..(MaxItems - 1)}

FromPlans == {<<From(a)>> : a \in Arrays}
MapPlans == {<<s, Map(1, th)>> : s \in SyncSources, th \in ThrowsOn}
DeferPlans == {<<s, Defer(1)>> : s \in SyncSources}

Filter(input, k) == [Def("filter") EXCEPT !.parent = input, !.arg = k]
FilterPlans == {<<s, Filter(1, k)>> : s \in SyncSources, k \in {0, 1}}

Timer(v) == [Def("timer") EXCEPT !.arg = v]
TimerPlans == {<<Timer(v)>> : v \in Values}

\* concat(...els); with no arguments it is EMPTY (part_002 lines 38-40)
Concat(els) == IF els = <<>> THEN Def("empty") ELSE [Def("concat") EXCEPT !.items = els]

\* what the program gives to concat: sources that end at once, one that
\* fails, and one that ends later
Elements == {From(<<>>), From(<<1>>), From(<<1, 2>>), Raise(<<1>>), Timer(2)}

ConcatPlans ==
  UNION {{els \o <<Concat([k \in 1..n |-> k])>> : els \in [1..n -> Elements]} :
           n \in 0..MaxItems}

\* the value a failing outer source fails with
OuterFailure == 8

MergeAll(input) == [Def("mergeAll") EXCEPT !.parent = input]

\* from([s1, ..., sn]).pipe(mergeAll()), and the same with an outer source
\* that fails after its items
MergePlans ==
  UNION {{els \o <<outer, MergeAll(n + 1)>> :
            els \in [1..n -> Elements],
            outer \in {From([k \in 1..n |-> k]),
                       [Raise([k \in 1..n |-> k]) EXCEPT !.arg = OuterFailure]}} :
           n \in 0..MaxItems}

ResolvePromises(input) == [Def("resolvePromises") EXCEPT !.parent = input]

\* the promises the program makes
MaxPromises == 2
PromiseRefs == {PromiseBase + k : k \in 1..MaxPromises}

\* arrays of plain values and promises, the promises numbered in the order
\* they first occur
PromiseArrays ==
  {a \in UNION {[1..n -> {1} \cup PromiseRefs] : n \in 0..MaxItems} :
     \A k \in DOMAIN a :
       (IsPromise(a[k]) /\ PromiseOf(a[k]) > 1) =>
         \E j \in 1..(k - 1) : a[j] = a[k] - 1}

\* from([...]).pipe(resolvePromises()), and the same with a source that fails
\* after its items
ResolvePlans ==
  {<<src, ResolvePromises(1)>> :
     src \in {From(a) : a \in PromiseArrays} \cup {Raise(a) : a \in PromiseArrays}}

\* the promises a plan's arrays hold
PromisesOf(p) ==
  IF p[Len(p)].op = "resolvePromises"
  THEN LET used == {PromiseOf(p[1].items[k]) : k \in DOMAIN p[1].items} \cap 1..MaxPromises
       IN [k \in 1..Cardinality(used) |-> "pending"]
  ELSE <<>>

\* from([...]).pipe(map(f), filter(p)): two operators in a row
ChainPlans == {<<From(a), Map(1, {}), Filter(2, k)>> : a \in Arrays, k \in {0, 1}}

Plans ==
  FromPlans \cup MapPlans \cup DeferPlans \cup TimerPlans \cup ConcatPlans \cup MergePlans
    \cup ResolvePlans \cup FilterPlans \cup ChainPlans

PipeInit ==
  /\ state = <<>>
  /\ parent = <<>>
  /\ child = <<>>
  /\ controller = <<>>
  /\ onClose = <<>>
  /\ hasOnError \in BOOLEAN
  /\ queueEnd = <<>>
  /\ nextIndex = <<>>
  /\ NothingRan
  /\ NoSubject
  /\ code = <<>>
  /\ closer = <<>>
  /\ cells = <<>>
  /\ obs = <<>>
  /\ timers = <<>>
  /\ sub = Null
  /\ plan \in Plans
  /\ promises = PromisesOf(plan)
  /\ opened = <<>>
  /\ userCalls = <<>>

PipeNext ==
  \/ Construct
  \/ CallSubscribeTop
  \/ SubscribeOpen
  \/ SubscribeNewStep
  \/ SubscribeCreate
  \/ SubscribeSource
  \/ SubscribeReturn
  \/ PipeUnsubscribe
  \/ SubscriberReturn
  \/ ScriptReturn
  \/ FromOpen
  \/ RaiseOpen
  \/ DeferOpen
  \/ ForwardController
  \/ AbandonCloser
  \/ MapController
  \/ MapperThrows
  \/ FilterController
  \/ EmptyOpen
  \/ ConcatOpen
  \/ ConcatComplete
  \/ ConcatSubscribe
  \/ ConcatRunNextReturn
  \/ ConcatInnerSynchronous
  \/ ConcatInnerRunNext
  \/ ConcatInnerForward
  \/ TimerOpen
  \/ TimerFire
  \/ TimerEmit
  \/ ClearTimeoutCloser
  \/ MergeOuterEnds
  \/ MergeOuterWaits
  \/ MergeOuterSubscribes
  \/ MergeInnerEnds
  \/ MergeInnerWaits
  \/ MergeInnerForward
  \/ AbandonAllCloser
  \/ ResolvePassesError
  \/ ResolveChains
  \/ PromiseSettles
  \/ ResolveReacts
  \/ DropPromiseCloser
  \/ DrainLoop
  \/ InvokeHandler
  \/ CatchAbandon
  \/ RouteError
  \/ RunClosers

PipeSpec == PipeInit /\ [][PipeNext]_vars

----------------------------------------------------------------------------
\* Reading the history

Ids == [k \in 1..Len(nodes) |-> k]

\* the iterations runEvent accepted on S for delivery, in the order of the calls
AcceptedOf(S) == SelectSeq(Ids, LAMBDA k : nodes[k].step = S)

NodeOf(log) == [k \in 1..Len(log) |-> log[k].node]

\* the iterations S handed to its child's controller, in order
DeliveredOf(S) == NodeOf(SelectSeq(delivered, LAMBDA d : d.from = S))

\* the iterations the controller of c was called with, in order
DeliveredTo(c) == NodeOf(SelectSeq(delivered, LAMBDA d : d.to = c))

Range(seq) == {seq[k] : k \in DOMAIN seq}

\* the drain loops of S that are running
DrainsOf(S) == {k \in DOMAIN stack : stack[k].kind = "runEvent" /\ stack[k].step = S}

\* the controller invocations made for S that have not returned
InvocationsOf(S) ==
  {k \in DOMAIN stack : /\ stack[k].kind = "user"
                        /\ stack[k].pc \in {"controller", "subscriber"}
                        /\ stack[k - 1].step = S}

\* this step is a call of next/complete/error/iter by user code
EmitCalled == calls' # calls /\ lastCall'.op = "emit"

\* the last call user code made was an emit that allocated no queue node
LastEmitDropped ==
  /\ lastCall.op = "emit"
  /\ \A k \in DOMAIN nodes : nodes[k].call # calls

----------------------------------------------------------------------------
\* C1: when nothing is running any more, no callback has thrown and S was not
\* abandoned, every iteration S accepted for a child with a controller has
\* been delivered to that controller exactly once, in the order of the emit
\* calls, re-entrant ones included.
C1_AllDeliveredInOrder ==
  (stack = <<>> /\ throws = 0) =>
    \A S \in Steps :
      (state[S] # "Closed" /\ child[S] # Null /\ controller[child[S]])
        => DeliveredOf(S) = AcceptedOf(S)

\* C2: at most one drain loop and one controller invocation is active per
\* Step, and an emit made on S while its drain loop runs only enqueues: it
\* pushes no frame and calls no controller.
C2_OneDrain ==
  \A S \in Steps : Cardinality(DrainsOf(S)) <= 1 /\ Cardinality(InvocationsOf(S)) <= 1

C2_ReentrantEmitOnlyEnqueues ==
  (EmitCalled /\ DrainsOf(lastCall'.step) # {})
    => (stack' = stack /\ delivered' = delivered)

C2_NoNestedDelivery == []C2_OneDrain /\ [][C2_ReentrantEmitOnlyEnqueues]_vars

\* an emit on S was accepted and enqueued while S's drain loop was delivering
\* an earlier iteration
C2_Witness ==
  /\ lastCall.op = "emit"
  /\ nodes # <<>>
  /\ nodes[Len(nodes)].call = calls
  /\ nodes[Len(nodes)].step = lastCall.step
  /\ queueEnd[lastCall.step] = Len(nodes)
  /\ \E k \in DrainsOf(lastCall.step) :
       stack[k].active # Len(nodes) /\ stack[k].pc = "handler"

\* C3: the iterations a Step accepts, and the ones a controller receives,
\* hold at most one terminal iteration, and it is the last one; an emit on a
\* Step that has accepted a terminal iteration changes nothing.
TerminalLast(ids) ==
  \A k \in 1..(Len(ids) - 1) : ~IsDone(nodes[ids[k]].iteration)

TerminalAccepted(S) ==
  \E k \in DOMAIN nodes : nodes[k].step = S /\ IsDone(nodes[k].iteration)

C3_TerminalIsLast ==
  \A S \in Steps :
    /\ TerminalLast(AcceptedOf(S))
    /\ TerminalLast(DeliveredTo(S))
    /\ TerminalAccepted(S) => state[S] # "Open"

C3_EmitAfterTerminalIsNoOp ==
  (EmitCalled /\ TerminalAccepted(lastCall'.step))
    => UNCHANGED <<state, queueEnd, nextIndex, nodes, stack, delivered>>

C3_AtMostOneTerminal == []C3_TerminalIsLast /\ [][C3_EmitAfterTerminalIsNoOp]_vars

\* a terminal iteration of S reached the child's controller, and a later emit
\* on S was dropped
C3_Witness ==
  /\ LastEmitDropped
  /\ \E d \in Range(delivered) :
       d.from = lastCall.step /\ IsDone(nodes[d.node].iteration)

\* C4: once an unsubscribe() call has returned, no callback of the subscriber
\* is invoked, and every Step of the chain is Closed with its links cleared.
C4_NoCallbackAfterUnsubscribe ==
  /\ \A k \in DOMAIN subLog : ~subLog[k].late
  /\ unsubReturned =>
       \A s \in Steps : state[s] = "Closed" /\ parent[s] = Null /\ child[s] = Null

\* C5: within one abandon pass, a Step's onClose runs only after the onClose
\* of every ancestor the pass collected (ancestors are the Steps nearer the
\* source: the lower numbers).
TornOf(p) == SelectSeq(torn, LAMBDA x : x.pass = p)

C5_TeardownRootFirst ==
  \A k \in DOMAIN torn :
    \A a \in Range(passes[torn[k].pass].closers) :
      a < torn[k].step =>
        \E j \in 1..(k - 1) : torn[j].pass = torn[k].pass /\ torn[j].step = a

\* a pass over at least two Steps with onClose has run all of them
C5_Witness ==
  \E p \in DOMAIN passes :
    /\ Len(passes[p].closers) >= 2
    /\ Len(TornOf(p)) = Len(passes[p].closers)
    /\ TornOf(p)[1].step = Root

\* C6: abandon starts at most one teardown pass per Step and unsubscribe at
\* most one per subscription; a second unsubscribe(), and abandon() on a Closed
\* Step, change no Step and call no onClose.
C6_OnePass ==
  /\ \A s \in Steps : Cardinality({p \in DOMAIN passes : passes[p].root = s}) <= 1
  /\ Cardinality({p \in DOMAIN passes : passes[p].via = "unsubscribe"}) <= 1

C6_SecondCancelIsNoOp ==
  (/\ calls' # calls
   /\ \/ lastCall'.op = "abandon" /\ state[lastCall'.step] = "Closed"
      \/ lastCall'.op = "unsubscribe" /\ unsubscribed)
    => UNCHANGED <<state, parent, child, queueEnd, nextIndex, nodes, passes,
                   torn, stack, delivered>>

C6_CancelIdempotent == []C6_OnePass /\ [][C6_SecondCancelIsNoOp]_vars

\* unsubscribe() was called twice; the one pass it started has run its closers
C6_Witness ==
  /\ calls = 2
  /\ lastCall.op = "unsubscribe"
  /\ nodes = <<>>
  /\ Len(passes) = 1
  /\ passes[1].via = "unsubscribe"
  /\ Len(torn) = Len(passes[1].closers)
  /\ Len(torn) >= 1
  /\ stack = <<>>

\* C7: when runEvent has caught what the child's controller threw while S was
\* delivering, S and its ancestors are Closed, S has delivered nothing since
\* the throw, and the thrown value went to the child as an accepted Error
\* iteration if the child was Open, to the uncaught sink if it was not.
ThrownInDelivery ==
  {k \in DOMAIN thrownLog : thrownLog[k].role \in {"controller", "subscriber"}}

C7_HandlerFailureRouted ==
  /\ \A k \in ThrownInDelivery :
       Len(DeliveredOf(thrownLog[k].from)) = thrownLog[k].n
  /\ \A k \in DOMAIN routed :
       LET r == routed[k] IN
       /\ \A a \in 1..r.step : state[a] = "Closed"
       /\ r.childOpen =>
            /\ state[r.child] # "Open"
            /\ r.grandchild # Null =>
                 /\ r.node \in DOMAIN nodes
                 /\ nodes[r.node].step = r.child
                 /\ nodes[r.node].iteration = ErrorIter(r.err)
       /\ ~r.childOpen => r.err \in Range(sink)

\* a controller threw, its Step was Open and has a child of its own, and the
\* Error iteration was accepted there
C7_Witness ==
  \E k \in DOMAIN routed :
    /\ routed[k].childOpen
    /\ routed[k].grandchild # Null
    /\ nodes[routed[k].node].iteration = ErrorIter(routed[k].err)
    /\ state[routed[k].step] = "Closed"

\* C8: when nothing is running any more, every exception a controller or a
\* subscriber callback threw during a delivery has reached a controller or the
\* subscriber's error callback as an Error iteration, or the uncaught sink.
C8_NoFailureDropped ==
  stack = <<>> =>
    \A k \in ThrownInDelivery :
      \/ thrownLog[k].err \in Range(sink)
      \/ \E d \in Range(delivered) :
           nodes[d.node].iteration = ErrorIter(thrownLog[k].err)

\* C9: no exception leaves the engine into the code that called it, and an
\* emit on a Step that is not Open changes no Step, queue or counter.
C9_NothingRaised == ~raised

C9_EmitOnClosedDropped ==
  (EmitCalled /\ state[lastCall'.step] # "Open")
    => UNCHANGED <<state, parent, child, queueEnd, nextIndex, nodes, stack,
                   delivered, passes>>

C9_EmitNeverThrows == []C9_NothingRaised /\ [][C9_EmitOnClosedDropped]_vars

\* an onClose callback threw inside the cascade of an emitted terminal
\* iteration, that emit returned, and a later emit on the Closed Step was
\* dropped
C9_Witness ==
  /\ stack = <<>>
  /\ LastEmitDropped
  /\ state[lastCall.step] = "Closed"
  /\ \E k \in DOMAIN thrownLog :
       /\ thrownLog[k].role = "onClose"
       /\ passes[thrownLog[k].pass].via = "terminal"

\* C10: every abandon pass that has returned has called all the closers it
\* collected, root first, whether or not one of them threw; what a closer
\* threw is in the uncaught sink.
Reverse(seq) == [k \in 1..Len(seq) |-> seq[Len(seq) + 1 - k]]

PassRunning(p) ==
  \E k \in DOMAIN stack : stack[k].kind = "abandon" /\ stack[k].pass = p

StepOf(log) == [k \in 1..Len(log) |-> log[k].step]

C10_CascadeSurvivesThrow ==
  /\ \A p \in DOMAIN passes :
       ~PassRunning(p) => StepOf(TornOf(p)) = Reverse(passes[p].closers)
  /\ \A k \in DOMAIN thrownLog :
       thrownLog[k].role = "onClose" => thrownLog[k].err \in Range(sink)

\* the first closer of a pass over two Steps threw, and the pass went on to
\* the second and returned
C10_Witness ==
  \E k \in DOMAIN thrownLog :
    LET p == thrownLog[k].pass IN
    /\ thrownLog[k].role = "onClose"
    /\ thrownLog[k].step = Root
    /\ Len(passes[p].closers) >= 2
    /\ ~PassRunning(p)
    /\ StepOf(TornOf(p)) = Reverse(passes[p].closers)

----------------------------------------------------------------------------
\* C15: the n-th iteration a step hands to its child's controller (n counted
\* from 0) carries the index n: the indices start at 0 and go up by exactly
\* one per delivery, whatever emits, re-entrant ones included, were made.
IndicesOf(S) ==
  LET log == SelectSeq(delivered, LAMBDA d : d.from = S)
  IN [k \in 1..Len(log) |-> log[k].index]

C15_IndexCountsDeliveries ==
  \A S \in Steps : \A k \in DOMAIN IndicesOf(S) : IndicesOf(S)[k] = k - 1

----------------------------------------------------------------------------
\* Reading the history of a subject

\* the events listener r was invoked for, in order
HeardBy(r) == NodeOf(SelectSeq(heard, LAMBDA h : h.listener = r))

\* the events notifySubscribers was called for, in order
Broadcasts == DeliveredTo(HandlerStep)

\* the events of a sequence that were emitted after event n
After(seq, n) == SelectSeq(seq, LAMBDA m : m > n)

\* nothing is running and no listener has thrown
SubjectAtRest == stack = <<>> /\ throws = 0

\* C11: a listener that subscribes during the delivery of event N, from inside
\* another listener's handler, is not invoked for N (nor for an earlier event),
\* and, as long as it is not cancelled, it is invoked for every event
\* broadcast after N: once nothing is running it has heard exactly those.
C11_JoinerHearsFromNextEvent ==
  /\ \A k \in DOMAIN heard :
       LET j == joins[heard[k].listener]
       IN j.during # Null => heard[k].node > j.during
  /\ SubjectAtRest =>
       \A r \in DOMAIN recs :
         (joins[r].during # Null /\ ~joins[r].left)
           => HeardBy(r) = After(Broadcasts, joins[r].during)

\* the listeners that cancelled themselves inside their own invocation
SelfCancelled == {u \in DOMAIN recs : joins[u].left /\ joins[u].leftBySelf}

\* the listeners after u in the list when event n was emitted, subscribed
\* outside any broadcast and never cancelled
LiveAfter(u, n) ==
  {r \in DOMAIN recs : /\ r > u
                       /\ joins[r].during = Null
                       /\ joins[r].at < n
                       /\ ~joins[r].left}

\* C12: a listener that unsubscribes itself during its own invocation for
\* event N is never invoked for a later event, and every live listener after
\* it in the list is still invoked for N and for the event broadcast next.
C12_SelfCancelIsClean ==
  /\ \A k \in DOMAIN heard :
       heard[k].listener \in SelfCancelled
         => heard[k].node <= joins[heard[k].listener].leftDuring
  /\ SubjectAtRest =>
       \A u \in SelfCancelled : \A r \in LiveAfter(u, joins[u].leftDuring) :
         LET N == joins[u].leftDuring
             later == After(Broadcasts, N)
         IN /\ N \in Range(HeardBy(r))
            /\ later # <<>> => later[1] \in Range(HeardBy(r))

----------------------------------------------------------------------------
\* Reading the history of a pipeline

\* the callbacks of the subscriber that were called, in order
Callbacks == [k \in 1..Len(subLog) |-> <<subLog[k].cb, subLog[k].value>>]

Nexts(values) == [k \in 1..Len(values) |-> <<"next", values[k]>>]
Completion == <<"complete", 0>>
ErrorOf(e) == <<"error", e>>

IsPrefix(s, w) == Len(s) <= Len(w) /\ s = SubSeq(w, 1, Len(s))

\* the top-level call of subscribe has returned
Returned == sub # Null

\* the steps endWithHandler made: one per call of subscribe
Bases == {s \in DOMAIN code : code[s].op = "end"}

\* the calls of a source's open function
SourceOpens == {k \in DOMAIN opened : opened[k].def # Null /\ obs[opened[k].def].parent = Null}

\* the subscribe calls that have not reached the call of the source's open
\* function (line 466), each named by its base step
Subscribing ==
  {stack[k].step : k \in {j \in DOMAIN stack :
      stack[j].kind = "subscribe" /\ stack[j].pc \in {"loop", "step", "start"}}}

\* C13: defining a pipeline (makeTx, makeTxOp, pipe) calls no open function
\* and no user callback: nothing has run before the first subscribe; each call
\* of subscribe calls the open function of its source exactly once; and the
\* factory given to defer runs once per opening of the deferred definition,
\* so at subscribe time, never at construction.
C13_Lazy ==
  /\ state = <<>> =>
       opened = <<>> /\ userCalls = <<>> /\ subLog = <<>> /\ nodes = <<>>
  /\ \A b \in Bases :
       LET opens == Cardinality({k \in SourceOpens : opened[k].base = b})
       IN IF b \in Subscribing THEN opens = 0 ELSE opens = 1
  /\ \A d \in DOMAIN obs :
       obs[d].op = "defer" =>
         LET made == Cardinality({k \in DOMAIN userCalls :
                                    userCalls[k].fn = "factory" /\ userCalls[k].def = d})
             opens == Cardinality({k \in DOMAIN opened : opened[k].def = d})
         IN made <= opens /\ (stack = <<>> => made = opens)

\* a deferred definition was subscribed to: its factory ran, and the
\* definition it returned was opened by a second subscribe
C13_Witness ==
  /\ Returned
  /\ Cardinality(Bases) = 2
  /\ \E k \in DOMAIN userCalls : userCalls[k].fn = "factory"
  /\ Len(subLog) > 1

\* C14: subscribing to from(array) or of(...) delivers every element to next,
\* once and in the order of the array, then completes once, all of it before
\* subscribe returns; nothing is delivered afterwards.
C14_FromDeliversInSubscribe ==
  (Len(plan) = 1 /\ plan[1].op = "from") =>
    LET want == Nexts(plan[1].items) \o <<Completion>>
    IN /\ IsPrefix(Callbacks, want)
       /\ Returned => Callbacks = want

C14_Witness ==
  /\ Len(plan) = 1 /\ plan[1].op = "from" /\ Len(plan[1].items) = MaxItems
  /\ Returned
  /\ Len(subLog) = MaxItems + 1

\* the pipeline is source.pipe(map(f)), the source emitting its items at once
IsMapPlan == Len(plan) = 2 /\ plan[2].op = "map" /\ plan[1].op \in {"from", "raise"}

\* the terminal a synchronous source ends with
TerminalOf(d) == IF d.op = "raise" THEN ErrorOf(d.arg) ELSE Completion

\* the step handed to the source of the pipeline subscribed to at top level
SourceStep == opened[Len(ChainOf(Len(plan)))].step

\* C20: map(f) emits, for the i-th item x of its input, the one item f(x, i)
\* in the same position, and forwards the terminal unchanged; if f throws at
\* item i the subscriber gets the items before i and then that failure as an
\* error (its error callback is called, or the uncaught sink when it has
\* none), and the source has been torn down by then.
C20_MapAppliesMapper ==
  IsMapPlan =>
    LET a == plan[1].items
        th == plan[2].throwsOn
        fails == \E i \in th : i < Len(a)
        n == IF fails THEN CHOOSE i \in th : TRUE ELSE Len(a)
        items == [k \in 1..n |-> <<"next", mapper(a[k], k - 1)>>]
        last == IF fails THEN ErrorOf(1) ELSE TerminalOf(plan[1])
        want == IF last[1] = "error" /\ ~hasOnError THEN items ELSE Append(items, last)
    IN /\ IsPrefix(Callbacks, want)
       /\ Returned => /\ Callbacks = want
                      /\ (last[1] = "error" /\ ~hasOnError) => sink = <<last[2]>>
       /\ (fails /\ (sink # <<>> \/ Len(Callbacks) > n)) => state[SourceStep] = "Closed"

\* the mapper threw at the second item: the subscriber got the first item
\* mapped, then the failure
C20_Witness ==
  /\ IsMapPlan /\ plan[2].throwsOn = {1} /\ Len(plan[1].items) = 2
  /\ Returned
  /\ Callbacks = <<<<"next", mapper(plan[1].items[1], 0)>>, ErrorOf(1)>>

\* every item was mapped with its index
C20_WitnessAll ==
  /\ IsMapPlan /\ plan[2].throwsOn = {} /\ Len(plan[1].items) = 2
  /\ Returned
  /\ Len(Callbacks) = 3

\* the pipeline is concat(s1, ..., sn), or concat()
IsConcatPlan == plan # <<>> /\ plan[Len(plan)].op \in {"concat", "empty"}

\* what a source of Elements emits before it ends
ItemsOf(d) == IF d.op = "timer" THEN <<d.arg>> ELSE d.items

\* what the subscriber of concat(sk, ..., sn) is owed
RECURSIVE OwedFrom(_)
OwedFrom(k) ==
  IF k >= Len(plan) THEN <<Completion>>
  ELSE Nexts(ItemsOf(plan[k])) \o
         (IF plan[k].op = "raise" THEN <<ErrorOf(plan[k].arg)>> ELSE OwedFrom(k + 1))

\* the calls of the open function of element i
OpensOf(i) == {k \in DOMAIN opened : opened[k].def = i}

\* element i has completed: its completion reached the handler concat gave it
CompletedElement(i) ==
  \E k \in OpensOf(i) : \E j \in DOMAIN delivered :
    /\ delivered[j].from = opened[k].step
    /\ nodes[delivered[j].node].iteration = CompleteIter

\* nothing is left to run: no call is active and no timeout is pending
Quiet == stack = <<>> /\ \A t \in DOMAIN timers : timers[t].state # "pending"

\* the callbacks a subscriber is owed, of which an error goes to the uncaught
\* sink when the subscriber has no error callback
Heard(owed) ==
  IF owed[Len(owed)][1] = "error" /\ ~hasOnError
  THEN SubSeq(owed, 1, Len(owed) - 1) ELSE owed

\* C16: concat(s1, ..., sn) subscribes to each source at most once and to
\* s(i+1) only when s(i) has completed; the subscriber gets the items of the
\* sources in the order of the list and then one completion, also when the
\* last source completes from a timeout; when a source fails the subscriber
\* gets that error and no later source is subscribed to; concat() completes
\* inside subscribe without an item.
C16_ConcatRunsInOrder ==
  IsConcatPlan =>
    LET n == Len(plan) - 1
        owed == OwedFrom(1)
    IN /\ IsPrefix(Callbacks, Heard(owed))
       /\ (Quiet /\ Returned /\ ~unsubscribed) =>
            /\ Callbacks = Heard(owed)
            /\ sink = IF Heard(owed) = owed THEN <<>> ELSE <<owed[Len(owed)][2]>>
       /\ \A i \in 1..n :
            /\ Cardinality(OpensOf(i)) <= 1
            /\ (i > 1 /\ OpensOf(i) # {}) => CompletedElement(i - 1)
            /\ \A j \in 1..(i - 1) : plan[j].op = "raise" => OpensOf(i) = {}
       /\ (n = 0 /\ Returned) => Callbacks = <<Completion>>

\* the last source completed from its timeout, after a source that completed
\* inside subscribe: the subscriber has every item and the completion
C16_Witness ==
  /\ IsConcatPlan /\ Len(plan) = 3
  /\ plan[1].op = "from" /\ plan[1].items # <<>> /\ plan[2].op = "timer"
  /\ Quiet /\ ~unsubscribed
  /\ Callbacks = OwedFrom(1)

\* a source failed: the source after it was never subscribed to
C16_WitnessError ==
  /\ IsConcatPlan /\ Len(plan) = 3
  /\ plan[1].op = "raise" /\ hasOnError
  /\ Quiet /\ Returned
  /\ Callbacks = <<<<"next", 1>>, ErrorOf(Failure)>>
  /\ OpensOf(2) = {}

\* the pipeline is timer(t, v)
IsTimerPlan == Len(plan) = 1 /\ plan[1].op = "timer"

\* C18: a subscriber of timer(t, v) gets nothing until the timeout runs; when
\* the subscription is not cancelled it gets v once and then one completion;
\* when it is cancelled before the timeout runs, the timeout is cleared and
\* the subscriber never gets anything.
C18_TimerFiresOnce ==
  IsTimerPlan =>
    LET want == <<<<"next", plan[1].arg>>, Completion>>
        fired == \E t \in DOMAIN timers : timers[t].state = "fired"
    IN /\ IsPrefix(Callbacks, want)
       /\ ~fired => subLog = <<>>
       /\ (fired /\ stack = <<>> /\ ~unsubscribed) => Callbacks = want
       /\ (unsubscribed /\ stack = <<>> /\ ~fired) =>
            \A t \in DOMAIN timers : timers[t].state = "cleared"
       /\ Len(timers) <= 1

\* the timeout ran and the subscriber was not cancelled
C18_Witness ==
  /\ IsTimerPlan /\ ~unsubscribed /\ stack = <<>>
  /\ Len(subLog) = 2

\* the subscription was cancelled while the timeout was pending
C18_WitnessCancelled ==
  /\ IsTimerPlan /\ unsubscribed /\ stack = <<>>
  /\ timers # <<>> /\ timers[1].state = "cleared"

\* the pipeline is from([s1, ..., sn]).pipe(mergeAll()), the outer source
\* ending with a completion or with an error
IsMergePlan == plan # <<>> /\ plan[Len(plan)].op = "mergeAll"

\* the iterations mergeAll's handlers were called with, in order: those of
\* the outer source (to) and those of the children (from)
GivenTo(ops) ==
  SelectSeq(delivered, LAMBDA d : code[d.to].op \in ops)
IterOf(log) == [k \in 1..Len(log) |-> nodes[log[k].node].iteration]

\* the values of the items in a sequence of iterations
ItemValues(its) ==
  LET items == SelectSeq(its, LAMBDA it : ~IsDone(it))
  IN [k \in 1..Len(items) |-> items[k].value]

\* the values the subscriber's next callback got
NextValues ==
  LET items == SelectSeq(subLog, LAMBDA c : c.cb = "next")
  IN [k \in 1..Len(items) |-> items[k].value]

\* how often v occurs in seq
Count(seq, v) == Cardinality({k \in DOMAIN seq : seq[k] = v})

\* the terminals the subscriber heard of: callbacks and uncaught errors
Terminals ==
  SelectSeq(Callbacks, LAMBDA c : c[1] # "next") \o
    [k \in 1..Len(sink) |-> ErrorOf(sink[k])]

\* the steps handed to the sources of the children
ChildSources ==
  {opened[k].step : k \in {j \in DOMAIN opened :
      opened[j].def # Null /\ opened[j].def < Len(plan) - 1}}

\* C17: mergeAll forwards the items of its children, in the order they come;
\* it subscribes to every child the outer source gives it; it completes once,
\* and only when the outer source and every child it subscribed to have
\* completed; the first error its handlers get, from the outer source or
\* from a child, is the one terminal of the output, after which every child
\* is closed and no timeout is pending.
C17_MergeAllJoins ==
  IsMergePlan =>
    LET n == Len(plan) - 2
        outer == IterOf(GivenTo({"mergeAll"}))
        inner == IterOf(GivenTo({"mergeAll.inner"}))
        all == IterOf(GivenTo({"mergeAll", "mergeAll.inner"}))
        errors == SelectSeq(all, LAMBDA it : IsError(it))
        noFailure == plan[n + 1].op = "from" /\ \A i \in 1..n : plan[i].op # "raise"
    IN /\ IsPrefix(NextValues, ItemValues(inner))
       /\ stack = <<>> => NextValues = ItemValues(inner)
       /\ stack = <<>> => Cardinality(ChildSources) = Len(ItemValues(outer))
       /\ Len(Terminals) <= 1
       /\ \A k \in DOMAIN subLog : subLog[k].cb # "next" => k = Len(subLog)
       /\ sink # <<>> => ~hasOnError
       /\ Completion \in Range(Terminals) =>
            /\ CompleteIter \in Range(outer)
            /\ Len(SelectSeq(inner, IsCompletion)) = Cardinality(ChildSources)
            /\ errors = <<>>
       /\ (errors # <<>> /\ stack = <<>>) =>
            /\ Terminals = <<ErrorOf(errors[1].value)>>
            /\ \A c \in ChildSources : state[c] = "Closed"
            /\ Quiet
       /\ Len(errors) <= 1
       /\ (Quiet /\ Returned /\ ~unsubscribed) =>
            /\ Len(Terminals) = 1
            /\ noFailure =>
                 /\ Terminals = <<Completion>>
                 /\ \A v \in Values :
                      Count(NextValues, v) =
                        Len(SelectSeq([i \in 1..n |-> Count(ItemsOf(plan[i]), v)],
                                      LAMBDA c : c = 1))
                        + 2 * Len(SelectSeq([i \in 1..n |-> Count(ItemsOf(plan[i]), v)],
                                            LAMBDA c : c = 2))

\* two children ended from their timeouts after the outer source had
\* completed: the subscriber got both items and then the completion
C17_Witness ==
  /\ IsMergePlan /\ Len(plan) = 4
  /\ plan[1].op = "timer" /\ plan[2].op = "timer" /\ plan[3].op = "from"
  /\ Quiet /\ ~unsubscribed
  /\ Len(subLog) = 3 /\ subLog[3].cb = "complete"

\* a child failed while another was waiting for its timeout: the error was
\* passed on and the timeout cleared
C17_WitnessError ==
  /\ IsMergePlan /\ Len(plan) = 4
  /\ plan[1].op = "timer" /\ plan[2].op = "raise"
  /\ hasOnError /\ ~unsubscribed /\ stack = <<>>
  /\ Callbacks = <<<<"next", 1>>, ErrorOf(Failure)>>
  /\ timers # <<>> /\ timers[1].state = "cleared"

\* the pipeline is source.pipe(resolvePromises())
IsResolvePlan == Len(plan) = 2 /\ plan[2].op = "resolvePromises"

\* what the subscriber is owed for the input v
Resolution(v) == IF IsPromise(v) THEN ResolvedValue(v) ELSE v

\* the inputs whose promise was rejected
Rejected(a) ==
  {k \in DOMAIN a : IsPromise(a[k]) /\ promises[PromiseOf(a[k])] = "rejected"}

\* no reaction is waiting in a chain
ChainsEmpty == \A c \in DOMAIN cells : cells[c].queue = <<>>

\* what the subscriber of the plan has got when its chain has run empty
\* without a cancel
ResolvedAll ==
  LET a == plan[1].items
      owed == [k \in DOMAIN a |-> Resolution(a[k])]
      k0 == CHOOSE k \in Rejected(a) : \A j \in Rejected(a) : k <= j
  IN IF plan[1].op = "raise" THEN Heard(<<ErrorOf(plan[1].arg)>>)
     ELSE IF Rejected(a) = {} THEN Nexts(owed) \o <<Completion>>
     ELSE Heard(Nexts(SubSeq(owed, 1, k0 - 1)) \o <<ErrorOf(RejectedWith(a[k0]))>>)

\* the parts of C19 that do not speak of subscribe: the values come in the
\* order of the inputs, each after its promise resolved; the completion comes
\* after all of them; a terminal is the last callback, and none comes after
\* a cancel; a chain that has run empty without a cancel has delivered all
\* that is owed
ResolvesInOrder ==
  LET a == plan[1].items
      owed == [k \in DOMAIN a |-> Resolution(a[k])]
  IN /\ IsPrefix(NextValues, owed)
     /\ \A k \in DOMAIN NextValues :
          IsPromise(a[k]) => promises[PromiseOf(a[k])] = "resolved"
     /\ Completion \in Range(Callbacks) => NextValues = owed
     /\ \A k \in DOMAIN subLog :
          /\ subLog[k].cb # "next" => k = Len(subLog)
          /\ ~subLog[k].late
     /\ Len(Terminals) <= 1
     /\ (Returned /\ stack = <<>> /\ ChainsEmpty /\ ~unsubscribed) =>
          Callbacks = ResolvedAll

\* C19 as stated: resolvePromises delivers the resolved values in the order
\* of the inputs whatever the order the promises settle in, calls no callback
\* of the subscriber before subscribe has returned, completes only after
\* every earlier input was delivered, and emits nothing after its output
\* closed.
C19_NothingInsideSubscribe ==
  IsResolvePlan =>
    /\ ResolvesInOrder
    /\ ~Returned => subLog = <<>>

\* C19, amended: resolvePromises delivers the resolved values in the order of
\* the inputs whatever the order the promises settle in, delivers no item and
\* no completion before subscribe has returned, completes only after every
\* earlier input was delivered, and emits nothing after its output closed; an
\* error of its input is passed on at once, also inside subscribe and ahead
\* of inputs still waiting, which are then never delivered.
C19_ResolvesInOrder ==
  IsResolvePlan =>
    /\ ResolvesInOrder
    /\ ~Returned => \A k \in DOMAIN subLog : subLog[k].cb = "error"
    /\ (plan[1].op = "raise" /\ Returned) =>
         /\ Callbacks = Heard(<<ErrorOf(plan[1].arg)>>)
         /\ sink = IF hasOnError THEN <<>> ELSE <<plan[1].arg>>

\* a plain value came in behind a promise: it was delivered after the
\* promise's value, and the completion after both
C19_Witness ==
  /\ IsResolvePlan /\ plan[1].op = "from"
  /\ Len(plan[1].items) = 2 /\ IsPromise(plan[1].items[1]) /\ ~IsPromise(plan[1].items[2])
  /\ Callbacks = << <<"next", ResolvedValue(plan[1].items[1])>>,
                    <<"next", plan[1].items[2]>>, Completion >>

\* the input failed behind an item: the error was delivered inside subscribe
C19_WitnessError ==
  /\ IsResolvePlan /\ plan[1].op = "raise" /\ plan[1].items # <<>>
  /\ ~Returned /\ Len(subLog) = 1

\* the pipeline is source.pipe(filter(p)), the source emitting its items at
\* once
IsFilterPlan == Len(plan) = 2 /\ plan[2].op = "filter"

\* the items of a the predicate k keeps, each with its own index, in order
RECURSIVE KeptFrom(_, _, _)
KeptFrom(a, k, i) ==
  IF i >= Len(a) THEN <<>>
  ELSE (IF filterFunc(k, a[i + 1], i) THEN <<a[i + 1]>> ELSE <<>>) \o KeptFrom(a, k, i + 1)

\* C21: filter(p) gives the subscriber the items x at input index i with
\* p(x, i) true, in input order and no others, then the terminal of its
\* input whatever p says; p is called once per item with the item's index.
C21_FilterKeepsSubsequence ==
  IsFilterPlan =>
    LET a == plan[1].items
        owed == Append(Nexts(KeptFrom(a, plan[2].arg, 0)), TerminalOf(plan[1]))
    IN /\ IsPrefix(Callbacks, Heard(owed))
       /\ Returned =>
            /\ Callbacks = Heard(owed)
            /\ sink = IF Heard(owed) = owed THEN <<>> ELSE <<owed[Len(owed)][2]>>
            /\ userCalls = [j \in DOMAIN a |->
                              [fn |-> "filterFunc", def |-> 2, value |-> a[j],
                               index |-> j - 1]]

\* an item was dropped and a later one kept: the subscriber got only the
\* later one, then the completion
C21_Witness ==
  /\ IsFilterPlan /\ plan[1].op = "from" /\ Len(plan[1].items) = 2
  /\ ~filterFunc(plan[2].arg, plan[1].items[1], 0)
  /\ filterFunc(plan[2].arg, plan[1].items[2], 1)
  /\ Returned
  /\ Callbacks = << <<"next", plan[1].items[2]>>, Completion >>

\* nothing was kept: the terminal still came
C21_WitnessTerminal ==
  /\ IsFilterPlan /\ plan[1].op = "raise" /\ Len(plan[1].items) = 2 /\ hasOnError
  /\ Returned
  /\ Callbacks = <<ErrorOf(Failure)>>

----------------------------------------------------------------------------
\* runEvent is at line 253 of a pass of its loop for a terminal iteration,
\* about to call the controller of its child
DeliversTerminal ==
  /\ OnTop("runEvent", {"invoke"})
  /\ controller[Top.child]
  /\ IsDone(nodes[Top.active].iteration)

\* S and the steps the chain was built with upstream of S
UpTo(S) == {a \in DOMAIN state : a <= S}

\* the steps whose onClose has been called
TornSteps == {torn[k].step : k \in DOMAIN torn}

\* when a terminal iteration of S is about to be handed to the child's
\* controller, S and its ancestors are Closed and their onClose callbacks
\* have been called
TeardownBeforeTerminal ==
  DeliversTerminal =>
    \A a \in UpTo(Top.step) :
      state[a] = "Closed" /\ (onClose[a] => a \in TornSteps)

\* C22: whenever a child's controller is invoked with a terminal iteration
\* of S, S and every ancestor of S are Closed, their onClose callbacks have
\* been called, and the child is Open.
C22_TerminalAfterTeardown ==
  /\ TeardownBeforeTerminal
  /\ DeliversTerminal => state[Top.child] = "Open"

\* this step starts an abandon pass that visits s (lines 171-182)
AbandonVisits(s) ==
  /\ Len(passes') = Len(passes) + 1
  /\ s \in Range(Walk(passes'[Len(passes')].root))

\* this step is a call of runEvent on s with a terminal iteration that line
\* 210 lets through: a queue node is made for it, or s has no child (line 222)
AcceptsTerminal(s) ==
  /\ state[s] = "Open"
  /\ \/ /\ Len(nodes') = Len(nodes) + 1
        /\ nodes'[Len(nodes')].step = s
        /\ IsDone(nodes'[Len(nodes')].iteration)
     \/ /\ child[s] = Null
        /\ nodes' = nodes
        /\ \/ lastCall'.op = "emit" /\ lastCall'.step = s /\ calls' # calls
           \/ OnTop("runEvent", {"route"}) /\ Top.child = s

\* C23: a step's state only moves Open -> Closing -> Closed (or Open ->
\* Closed); it becomes Closing only in a call of runEvent that accepts a
\* terminal iteration on it, and Closed only in the walk of abandon.
C23_LifecycleForward ==
  [][\A s \in DOMAIN state :
       state'[s] # state[s] =>
         /\ state[s] # "Closed"
         /\ state'[s] # "Open"
         /\ state'[s] = "Closing" => AcceptsTerminal(s)
         /\ state'[s] = "Closed" => AbandonVisits(s)]_vars

\* one step went Open -> Closing -> Closed for a terminal iteration it
\* delivered, and the step upstream went from Open to Closed in that abandon
C23_Witness ==
  /\ state[Root] = "Closed" /\ state[Root + 1] = "Closed"
  /\ \E k \in DOMAIN delivered :
       delivered[k].from = Root + 1 /\ IsDone(nodes[delivered[k].node].iteration)
  /\ \A k \in DOMAIN nodes : nodes[k].step # Root

\* C24: in every reachable state, C._parent = P exactly when P._child = C;
\* so once abandon has torn P down, no step has P as its parent.
C24_LinksAreDual ==
  \A P \in DOMAIN state : \A C \in DOMAIN state :
    parent[C] = P <=> child[P] = C

\* the steps the program's own call of subscribe made: the step of
\* endWithHandler, which is the first step allocated, and the steps handed to
\* the open functions of that call
TopBase == 1
TopSteps == {TopBase} \cup {opened[k].step : k \in {j \in DOMAIN opened : opened[j].base = TopBase}}

\* the terminal iteration reached the subscriber, and every call has returned
EndedNaturally ==
  /\ code # <<>> /\ code[TopBase].callbacks
  /\ stack = <<>>
  /\ ~unsubscribed
  /\ \/ \E k \in DOMAIN subLog : subLog[k].cb # "next"
     \/ sink # <<>> /\ ~hasOnError

\* a step is destroyed: Closed, with both links cleared
Destroyed(s) == state[s] = "Closed" /\ parent[s] = Null /\ child[s] = Null

\* C25: once the terminal iteration of the source has been delivered to the
\* subscriber's complete or error callback, every step made by that call of
\* subscribe, the step of endWithHandler included, is Closed with its parent
\* and child links cleared.
C25_DestroyedAfterNaturalEnd ==
  EndedNaturally => \A s \in TopSteps : Destroyed(s)

\* the same for the steps handed to open functions
OperatorStepsDestroyed ==
  EndedNaturally => \A s \in TopSteps \ {TopBase} : Destroyed(s)

\* how often the onClose of s has been called
TornCount(s) == Cardinality({k \in DOMAIN torn : torn[k].step = s})

\* C26: the onClose callback of a step is called at most once, whatever is
\* emitted, completed, thrown or cancelled: not again by an unsubscribe after
\* a completion, and not again when a terminal iteration goes on through the
\* steps downstream.
C26_OnCloseAtMostOnce == \A s \in DOMAIN state : TornCount(s) <= 1

InCloserOfPass == OnTop("user", {"onClose"})
PassOfCloser == passes[stack[Len(stack) - 1].pass]

\* every step a started pass has walked over, and every step upstream of it,
\* is Closed with its links cleared: so it is when the pass calls its first
\* onClose, and from then on
CascadeClosedFirst ==
  \A p \in DOMAIN passes : \A a \in UpTo(passes[p].root) : Destroyed(a)

\* an emit made by an onClose callback on a step of its cascade changes no
\* step, queue, counter or stack, and calls no controller
EmitInCloserDropped ==
  (InCloserOfPass /\ EmitCalled /\ lastCall'.step \in UpTo(PassOfCloser.root)) =>
    /\ UNCHANGED <<state, parent, child, queueEnd, nextIndex, nodes, stack>>
    /\ UNCHANGED <<delivered, subLog>>

\* C28: when an abandon pass calls its first onClose, every step it visited
\* is Closed with its links cleared; so an emit made from inside an onClose of
\* the pass, on any step of the pass, is dropped and delivers nothing.
C28_ClosedBeforeClosers == []CascadeClosedFirst /\ [][EmitInCloserDropped]_vars

\* user code abandoned a step, and an onClose of that pass emitted on a step
\* of the pass: the emit was dropped
C28_Witness ==
  /\ InCloserOfPass
  /\ Len(passes) = 1 /\ passes[1].via = "abandon"
  /\ calls = 2 /\ lastCall.op = "emit" /\ lastCall.step \in UpTo(passes[1].root)
  /\ LastEmitDropped

\* the terminal iterations runEvent accepted on S, each for a child S had then
TerminalsAcceptedOf(S) ==
  SelectSeq(AcceptedOf(S), LAMBDA k : IsDone(nodes[k].iteration))

\* no teardown pass but the one the drain loop of S starts for its own
\* terminal iteration has run
OnlyOwnTeardown(S) ==
  \A p \in DOMAIN passes : passes[p].root = S /\ passes[p].via = "terminal"

\* C29: a step does not stay Closing.  When nothing is running any more, no
\* callback has thrown and no other teardown took place, a step that accepted
\* a terminal iteration for its child, be it during its own drain loop, is
\* Closed, its onClose has been called and the controller of the child has
\* been called with that terminal iteration.
C29_ClosingIsTransient ==
  \A S \in Steps :
    (stack = <<>> /\ throws = 0 /\ OnlyOwnTeardown(S)) =>
      \A k \in Range(TerminalsAcceptedOf(S)) :
        /\ state[S] = "Closed"
        /\ onClose[S] => S \in TornSteps
        /\ k \in Range(DeliveredOf(S))

\* the calls of open functions a subscribe call made, in order; the call is
\* named by its base step
CallsOf(b) == SelectSeq(opened, LAMBDA e : e.base = b)

\* the entry is a call of the open function of a source
IsSourceCall(e) == e.def # Null /\ obs[e.def].parent = Null

\* the open functions are called from the definition subscribed to towards
\* its source, each once, the source's last; the code given to runTx, which
\* belongs to no definition of the program, comes first
OpensInOrder ==
  \A b \in Bases :
    LET log == CallsOf(b) IN
    /\ \A k \in DOMAIN log : log[k].def = Null => k = 1
    /\ \A k \in 1..(Len(log) - 1) :
         log[k].def # Null => log[k + 1].def = obs[log[k].def].parent
    /\ \A j, k \in DOMAIN log : j # k => log[j].def # log[k].def
    /\ \A k \in DOMAIN log : IsSourceCall(log[k]) => k = Len(log)
    /\ b \notin Subscribing => (log # <<>> /\ IsSourceCall(log[Len(log)]))
    /\ (b = TopBase /\ log # <<>>) => log[1].def = Len(plan)

\* an open function is called in this step
OpenCalled == Len(opened') = Len(opened) + 1

\* the step an open function is called with has the step built before it as
\* its child.  An operator's controller is installed on that step while no
\* step upstream of it exists; the source is called with the root of the
\* chain, by a subscribe call that has created its subscription.
OpenCallWellFormed ==
  OpenCalled =>
    LET e == opened'[Len(opened')]
        log == CallsOf(e.base)
        built == IF log = <<>> THEN e.base ELSE log[Len(log)].step
        caller == stack'[Len(stack') - 1]
    IN /\ child'[e.step] = built
       /\ parent'[e.step] = Null
       /\ IF IsSourceCall(e)
          THEN /\ Len(stack') >= 2
               /\ caller.kind = "subscribe" /\ caller.step = e.base
               /\ caller.flag = TRUE
               /\ stack'[Len(stack')].step = e.step
          ELSE controller'[e.step] /\ code'[e.step].op = e.op

\* a step is built on a step whose controller is installed
BuiltOnController ==
  \A s \in DOMAIN state' \ DOMAIN state :
    child'[s] # Null => controller'[child'[s]]

\* C30: subscribe calls the operators' open functions from the consumer's
\* side towards the source, each once, each with a step whose child is the
\* step built before it; it installs the controller an open function returns
\* before it builds the next step upstream; and it calls the source's open
\* function last, with the root step, after it has created the subscription.
C30_SubscribeBuildsConsumerToSource ==
  []OpensInOrder /\ [][OpenCallWellFormed /\ BuiltOnController]_vars

\* a pipeline of two operators was subscribed to: the open function of the
\* source is running, after those of filter and of map
C30_Witness ==
  /\ plan \in ChainPlans
  /\ OnTop("user", {"open"})
  /\ Len(opened) = 3
  /\ opened[1].op = "filter" /\ opened[2].op = "map" /\ opened[3].op = "from"
  /\ Top.step = Len(state)

\* the records linked from c on in the heap rs, in list order (at most n)
RECURSIVE ListIn(_, _, _)
ListIn(rs, c, n) ==
  IF c = Null \/ n = 0 THEN <<>> ELSE <<c>> \o ListIn(rs, rs[c].nextChild, n - 1)

\* the live records of the subject's list, in list order
LiveList(rs, first) ==
  SelectSeq(ListIn(rs, first, Len(rs)), LAMBDA r : rs[r].handler # Null)

\* notifySubscribers takes this step: it starts (lines 327-340), or goes
\* through one round of its loop (341-366)
WalkSteps ==
  \/ OnTop("notify", {"loop", "called"})
  \/ OnTop("user", {"controller"}) /\ Top.step = HandlerStep

\* a step of the walk leaves the live records of the list in the list, in
\* their order
WalkKeepsLive == WalkSteps => LiveList(recs', children') = LiveList(recs, children)

\* notifySubscribers returns in this step (the loop of line 341 has ended)
WalkReturns == OnTop("notify", {"loop", "called"}) /\ stack' = Below

\* how often the walk for the queue node n has called the handler of r
TimesHeard(r, n) ==
  Cardinality({k \in DOMAIN heard : heard[k].listener = r /\ heard[k].node = n})

\* when the walk returns, the dead records left in the list are those that
\* were cancelled during this walk, after it had reached them; and every live
\* record of the list that never carried a guard has been called once
WalkReturnsClean ==
  WalkReturns =>
    \A r \in Range(ListIn(recs', children', Len(recs'))) :
      IF recs'[r].handler = Null
      THEN joins'[r].leftDuring = Top.active
      ELSE (joins'[r].during = Null /\ joins'[r].at < Top.active)
             => TimesHeard(r, Top.active)' = 1

\* the handlers are called in list order, none twice for one event: the list
\* is appended to only, so list order is the order of the records
HeardInListOrder ==
  \A j, k \in DOMAIN heard :
    (j < k /\ heard[j].node = heard[k].node) => heard[j].listener < heard[k].listener

\* C31: a walk of notifySubscribers unlinks no live record: each of its steps
\* leaves the live records in the list, in their order; when it returns the
\* records that were dead when it reached them are unlinked; and every live
\* record without a guard was called once, in list order.
C31_WalkKeepsLiveRecords ==
  []HeardInListOrder /\ [][WalkKeepsLive /\ WalkReturnsClean]_vars

\* the record the loop of lines 341-366 looks at next, and its prevChild
WalkAt == IF Top.pc = "called" THEN NextAfterHandler(Top.nextChild, Top.child) ELSE Top.child
WalkPrev == IF Top.pc = "called" THEN Top.child ELSE Top.prevChild

\* the main loop is about to splice out a dead record (line 347)
SplicesDead ==
  /\ OnTop("notify", {"loop", "called"})
  /\ WalkAt # Null
  /\ ~HandlerIsSet(recs[WalkAt])

\* C32: whenever the main loop of notifySubscribers splices out a dead record,
\* prevChild is not null and is a record of the list, whatever the list
\* looks like, a first live record that still carries its addedAfter guard
\* included.
C32_PrevChildIsSet ==
  SplicesDead =>
    /\ WalkPrev # Null
    /\ WalkPrev \in Range(ListIn(recs, children, Len(recs)))

\* the exceptions thrown by listeners' handlers
ListenerThrows == {k \in DOMAIN thrownLog : thrownLog[k].role = "listener"}

\* the event a listener was last called for
LastHeardBy(r) == HeardBy(r)[Len(HeardBy(r))]

\* the live listeners behind r in the list that were subscribed, outside any
\* broadcast, before the event n was emitted
OwedBehind(r, n) ==
  {q \in Range(LiveList(recs, children)) :
     q > r /\ joins[q].during = Null /\ joins[q].at < n}

\* the listeners behind the one that threw have been called for that event
RestStillHeard ==
  \A k \in ListenerThrows :
    LET r == thrownLog[k].step IN
    \A q \in OwedBehind(r, LastHeardBy(r)) : LastHeardBy(r) \in Range(HeardBy(q))

\* C33: an exception thrown by a listener during a broadcast is isolated:
\* once nothing is running, the live listeners behind it in the list have
\* been called for that event, and the subject's output step is still Open,
\* so that later events are delivered.
C33_ListenerThrowIsIsolated ==
  (stack = <<>> /\ ListenerThrows # {}) =>
    /\ state[OutputStep] = "Open"
    /\ RestStillHeard

\* abandon takes this step: it starts a pass (lines 164-182), or its loop
\* over the closers calls the next one or returns (184-191)
PassStarts == Len(passes') = Len(passes) + 1
AbandonSteps == PassStarts \/ OnTop("abandon", {"closers", "closer"})

\* the step abandon was called on
Abandoned ==
  IF PassStarts THEN passes'[Len(passes')].root ELSE passes[Top.pass].root

\* the steps of the chain downstream of S
DownFrom(S) == {t \in DOMAIN state : t > S}

\* a step of abandon leaves the steps downstream of the abandoned step and
\* the queue nodes alone; a pass started for a terminal iteration leaves the
\* drain loop with the child and the iteration it is about to hand over
DownstreamKept ==
  AbandonSteps =>
    /\ \A t \in DownFrom(Abandoned) :
         /\ state'[t] = state[t]
         /\ controller'[t] = controller[t]
         /\ queueEnd'[t] = queueEnd[t]
         /\ nextIndex'[t] = nextIndex[t]
         /\ child'[t] = child[t]
         /\ parent'[t] = parent[t]
    /\ nodes' = nodes
    /\ (PassStarts /\ passes'[Len(passes')].via = "terminal") =>
         LET drain == stack'[Len(stack') - 1] IN
         /\ drain.kind = "runEvent" /\ drain.step = Abandoned
         /\ drain.child = child[Abandoned]
         /\ IsDone(nodes[drain.active].iteration)

\* C34: abandon(S) assigns to the state, the links and the queue of S and of
\* the steps upstream of S only: every step downstream of S keeps its state,
\* its links, its controller and its pending queue, and the drain loop whose
\* terminal iteration started the pass still holds the child to hand it to.
C34_AbandonKeepsDownstream == [][DownstreamKept]_vars

\* the terminal iteration accepted on Root closed Root, and the drain loop
\* hands it to Mid, which is Open and has its controller
C34_Witness ==
  /\ DeliversTerminal
  /\ Top.step = Root
  /\ Len(passes) = 1 /\ passes[1].root = Root /\ passes[1].via = "terminal"
  /\ state[Root] = "Closed"
  /\ state[Top.child] = "Open" /\ controller[Top.child]
====
